---------------------------- MODULE Spec2Model ----------------------------
(***************************************************************************)
(* A model of the HERTZ playback engine.                                   *)
(*                                                                         *)
(*  - Player  (src/hertz/services/player.py): queue, cursor, status, loop  *)
(*    flags, position tracker, auto-disconnect timer, driven by coroutines *)
(*    that interleave at their await points on one asyncio event loop.     *)
(*  - GuildPlayer (src/services/guild_player.py): the wall-clock position  *)
(*    bookkeeping of play / seek / pause / resume.                         *)
(*                                                                         *)
(* A coroutine is a task: a stack of frames, the topmost one being the     *)
(* await the task is suspended at.  One step of the model runs a task from *)
(* one await to the next, which is what the event loop does.               *)
(***************************************************************************)
EXTENDS Integers, Sequences, FiniteSets, Bags

\* ------------------------------------------------------------------ bounds
NSongs == 2
MaxQueue == 3
MaxTasks == 3
MaxPos == 3
MaxSkip == 2
MaxTimers == 1
MaxClock == 3
MaxPlayed == 2
NGuilds == 3
MaxDownloads == 2
MaxCreated == 3
MaxCommands == 4
MaxEnqueued == 4
MaxEdits == 2

\* is_inactive(): seconds without activity after which a player is inactive
InactiveSeconds == 600

\* 30 * 60: the longest duration, in seconds, _get_audio_source caches
CacheMaxSeconds == 1800

\* ------------------------------------------------------- tracks (SongMetadata)
Songs == 1..NSongs
NoSong == 0
\* SongMetadata.url: the identity of the media; "" is modelled as 0
Url(s) == s
\* SongMetadata.length, in seconds
Length(s) == 2
\* SongMetadata.is_live: the tracks of Songs are recordings, LiveSong is a
\* livestream
LiveSong == NSongs + 1
IsLive(s) == s = LiveSong
\* SongMetadata.playlist: track 2 belongs to a playlist group
InPlaylist(s) == s = 2

VARIABLES
    player,     \* the fields of the Player object
    vc,         \* the VoiceClient object self.voice_client refers to
    tasks,      \* bag of coroutines in flight on the event loop
    timers,     \* call_later handles no longer referenced by the player, still pending
    obs,        \* the last command issued and the state it was issued in
    guild,      \* a GuildPlayer: its fields, voice client, tasks and the clock
    players,    \* PlayerManager.players: the guilds that have a player
    cache,      \* the cache directory, the cache index and the caching tasks
    manager     \* the PlayerManager of the GuildPlayers

vars == <<player, vc, tasks, timers, obs, guild, players, cache, manager>>

\* guild ids; player and guild are the players of the first
Guilds == 1..NGuilds
Home == CHOOSE g \in Guilds : \A h \in Guilds : g <= h

\* ------------------------------------------------------------------ frames
Frame(pc, song, prev, pos) ==
    [pc |-> pc, song |-> song, prev |-> prev, pos |-> pos, volume |-> 0]
At(pc) == Frame(pc, NoSong, "IDLE", 0)
Task(root, stack) == [root |-> root, stack |-> stack]

\* The result of running a coroutine up to its next await (st non-empty) or to
\* its end (st empty; ok = FALSE when it raised).
Done(w) == [w |-> w, st |-> <<>>, ok |-> TRUE]
Raise(w) == [w |-> w, st |-> <<>>, ok |-> FALSE]
Suspend(w, fr) == [w |-> w, st |-> <<fr>>, ok |-> TRUE]
\* `await callee` inside a caller that continues at frame fr when it returns
Await(r, fr) == IF r.st = <<>> THEN r ELSE [r EXCEPT !.st = r.st \o <<fr>>]

\* volume is the ratio of the source, in hundredths; 0 where there is none
NoVoice == [state |-> "closed", song |-> NoSong, after |-> "play", volume |-> 0]
IdleVoice == [state |-> "idle", song |-> NoSong, after |-> "play", volume |-> 0]

\* self.volume = None, and DEFAULT_VOLUME
NoVolume == -1
DefaultVolume == 100

\* get_volume()
GetVolume(p) == IF p.volume # NoVolume THEN p.volume ELSE DefaultVolume

\* max(0, min(100, level))
Clamp(level) ==
    LET low == IF level < 100 THEN level ELSE 100 IN IF low > 0 THEN low ELSE 0

\* The world a coroutine acts on: the player, its voice client, the tasks it
\* schedules (ev) and the timers it leaves behind (tm).
World == [p |-> player, vc |-> vc, ev |-> EmptyBag, tm |-> timers]


\* ------------------------------------------------------------ list slices
\* q[:n] and q[n:] of a Python list: the bounds are clamped to the list
Take(q, n) == SubSeq(q, 1, IF n < Len(q) THEN (IF n < 0 THEN 0 ELSE n) ELSE Len(q))
Drop(q, n) == SubSeq(q, (IF n < 0 THEN 0 ELSE n) + 1, Len(q))

\* ------------------------------------------------------------ queue queries
GetCurrent(p) ==
    IF 0 <= p.queue_position /\ p.queue_position < Len(p.queue)
    THEN p.queue[p.queue_position + 1]
    ELSE NoSong

GetQueue(p) ==
    IF p.queue_position < Len(p.queue)
    THEN Drop(p.queue, p.queue_position + 1)
    ELSE <<>>

QueueSize(p) == Len(GetQueue(p))

\* ------------------------------------------------------------ voice client
\* the task created for the `after` callback of a source that ended
Finished(after) ==
    Task("finished", <<At(CASE after = "play" -> "hsf"
                            [] after = "seek" -> "after_seek"
                            [] after = "guild" -> "g_after")>>)

IsPlaying(w) == w.vc.state = "playing"
IsPaused(w) == w.vc.state = "paused"

\* VoiceClient.stop(): the audio thread ends and calls `after`
VcStop(w) ==
    IF w.vc.state \in {"playing", "paused"}
    THEN [w EXCEPT !.vc = IdleVoice, !.ev = @ (+) SetToBag({Finished(w.vc.after)})]
    ELSE w

\* VoiceClient.play() raises when not connected or already playing; on
\* self.voice_client = None the attribute access raises
VcCanPlay(w) == w.p.voice_client /\ w.vc.state \in {"idle", "paused"}
VcPlay(w, song, after, volume) ==
    [w EXCEPT !.vc = [state |-> "playing", song |-> song, after |-> after,
                      volume |-> volume]]

\* --------------------------------------------------------- position tracking
StopPositionTracking(w) == [w EXCEPT !.p.position_tracker_task = FALSE]

StartPositionTracking(w, reset, initial_position) ==
    [w EXCEPT !.p.position_tracker_task = TRUE,
              !.p.position_in_seconds = IF reset THEN initial_position ELSE @]

\* ------------------------------------------------------ auto-disconnect timer
\* self.disconnect_timer: None, or the call_later handle with its delay
NoTimer == [state |-> "none", delay |-> 0]

CancelTimer(w) == [w EXCEPT !.p.disconnect_timer = NoTimer]

\* call_later(disconnect_delay, ...): a handle still pending is overwritten,
\* not cancelled
ArmTimer(w, disconnect_delay) ==
    [w EXCEPT !.tm = IF w.p.disconnect_timer.state = "armed" THEN @ + 1 ELSE @,
              !.p.disconnect_timer = [state |-> "armed", delay |-> disconnect_delay]]

\* ------------------------------------------------------------------- seek
SeekEntry(w, position_seconds) ==
    LET current_song == GetCurrent(w.p) IN
    IF ~w.p.voice_client THEN Raise(w)
    ELSE IF current_song = NoSong THEN Raise(w)
    ELSE IF IsLive(current_song) THEN Raise(w)
    ELSE IF position_seconds > Length(current_song) THEN Raise(w)
    ELSE Suspend(VcStop(w),
                 Frame("seek_get_source", current_song, w.p.status, position_seconds))

\* seek() ending with self.status = Status.PLAYING
SeekAfterSourcePlaying(w, fr, source_ok) ==
    IF ~source_ok THEN Raise(w)
    ELSE IF ~VcCanPlay(w) THEN Raise(w)
    ELSE Done(StartPositionTracking(
                  [VcPlay(w, fr.song, "seek", GetVolume(w.p)) EXCEPT !.p.status = "PLAYING"],
                  TRUE, fr.pos))

SeekAfterSource(w, fr, source_ok) ==
    IF ~source_ok THEN Raise(w)
    ELSE IF ~VcCanPlay(w) THEN Raise(w)
    ELSE Done(StartPositionTracking(
                  [VcPlay(w, fr.song, "seek", GetVolume(w.p)) EXCEPT !.p.status = fr.prev],
                  TRUE, fr.pos))

\* ------------------------------------------------------------------- play
PlayEntry(w) ==
    LET current_song == GetCurrent(w.p)
        w1 == CancelTimer(w)
        try == Suspend(w1, Frame("play_get_source", current_song, "IDLE", 0))
    IN
    IF ~w.p.voice_client THEN Raise(w)
    ELSE IF current_song = NoSong THEN Raise(w)
    ELSE IF w1.p.status = "PAUSED" /\ Url(current_song) = w1.p.last_song_url
         THEN IF IsPaused(w1)
              THEN Done(StartPositionTracking(
                       [w1 EXCEPT !.vc.state = "playing", !.p.status = "PLAYING"],
                       FALSE, 0))
              ELSE IF w1.p.position_in_seconds > 0
                   THEN Await(SeekEntry(w1, w1.p.position_in_seconds), At("play_seek"))
                   ELSE try
         ELSE try

\* ------------------------------------------------------------------ forward
\* forward() moving the cursor without the test of line 418
ForwardEntryUnchecked(w, skip) ==
    LET w1 == [StopPositionTracking(w) EXCEPT !.p.loop_current_song = FALSE,
                                              !.p.queue_position = @ + skip,
                                              !.p.position_in_seconds = 0]
    IN IF w1.p.status # "PAUSED" /\ w1.p.voice_client /\ GetCurrent(w1.p) # NoSong
       THEN Suspend(CancelTimer(w1), Frame("play_get_source", GetCurrent(w1.p), "IDLE", 0))
       ELSE Done(w1)

ForwardEntry(w, skip) ==
    LET w1 == [StopPositionTracking(w) EXCEPT !.p.loop_current_song = FALSE] IN
    IF w1.p.queue_position + skip < Len(w1.p.queue)
    THEN LET w2 == [w1 EXCEPT !.p.queue_position = @ + skip,
                              !.p.position_in_seconds = 0]
         IN IF w2.p.status # "PAUSED" THEN PlayEntry(w2) ELSE Done(w2)
    ELSE LET w2 == IF w1.p.voice_client /\ (IsPlaying(w1) \/ IsPaused(w1))
                   THEN VcStop(w1) ELSE w1
         IN Suspend([w2 EXCEPT !.p.status = "IDLE"], At("forward_settings"))

\* forward() that never calls call_later
ForwardAfterSettingsUnarmed(w, disconnect_delay) == Done(w)

ForwardAfterSettings(w, disconnect_delay) ==
    IF disconnect_delay > 0 THEN Done(ArmTimer(w, disconnect_delay)) ELSE Done(w)

\* play()'s `except Exception`: skip to the next song, then raise
PlayExcept(w) ==
    LET r == ForwardEntry(w, 1) IN
    IF r.st = <<>> THEN Raise(r.w) ELSE Await(r, At("play_except"))

PlayStart(w, fr) ==
    IF ~VcCanPlay(w) THEN PlayExcept(w)
    ELSE Done(StartPositionTracking(
                  [VcPlay(w, fr.song, "play", fr.volume) EXCEPT
                       !.p.status = "PLAYING",
                       !.p.last_song_url = Url(fr.song)],
                  FALSE, 0))

\* the transformer _get_audio_source returns has the ratio of get_volume()
\* at that moment
PlayAfterSource(w, fr, source_ok) ==
    LET volume == GetVolume(w.p) IN
    IF ~source_ok THEN PlayExcept(w)
    ELSE IF ~w.p.voice_client THEN PlayExcept(w)
    ELSE IF IsPlaying(w) \/ IsPaused(w)
         THEN Suspend(VcStop(w), [Frame("play_sleep", fr.song, "IDLE", 0)
                                      EXCEPT !.volume = volume])
         ELSE PlayStart(w, [fr EXCEPT !.volume = volume])

\* -------------------------------------------------------------------- back
\* back() that starts the first track again when there is none before it
BackEntryRestarting(w) ==
    LET w1 == StopPositionTracking(
                  [w EXCEPT !.p.queue_position = IF @ > 0 THEN @ - 1 ELSE @,
                            !.p.position_in_seconds = 0])
    IN IF w1.p.status # "PAUSED" THEN PlayEntry(w1) ELSE Done(w1)

BackEntry(w) ==
    IF w.p.queue_position > 0
    THEN LET w1 == StopPositionTracking(
                       [w EXCEPT !.p.queue_position = @ - 1,
                                 !.p.position_in_seconds = 0])
         IN IF w1.p.status # "PAUSED" THEN PlayEntry(w1) ELSE Done(w1)
    ELSE Raise(w)

\* ------------------------------------------------------ disconnect and stop
DisconnectEntry(w) ==
    LET w1 == CancelTimer(StopPositionTracking(w)) IN
    IF w1.p.voice_client
    THEN LET w2 == [w1 EXCEPT !.p.status = IF @ = "PLAYING" THEN "PAUSED" ELSE @]
             w3 == VcStop(w2)
         IN Suspend([w3 EXCEPT !.vc = NoVoice], At("disconnect_wait"))
    ELSE Done(w1)

\* self.voice_client = None; a client that is still playing then goes on
\* unreferenced and its source ends later
DisconnectAfter(w) ==
    LET w1 == IF IsPlaying(w) THEN VcStop(w) ELSE w IN
    Done([w1 EXCEPT !.p.voice_client = FALSE, !.vc = NoVoice])

\* stop() without the status test of line 481
StopEntryAnyStatus(w) ==
    IF ~w.p.voice_client THEN Raise(w)
    ELSE Await(DisconnectEntry(w), At("stop_after"))

StopEntry(w) ==
    IF ~w.p.voice_client THEN Raise(w)
    ELSE IF w.p.status # "PLAYING" THEN Raise(w)
    ELSE Await(DisconnectEntry(w), At("stop_after"))

StopAfter(w) ==
    Done([w EXCEPT !.p.queue = <<>>, !.p.queue_position = 0, !.p.status = "IDLE"])

\* a callback that disconnects whatever the status is
DisconnectCallbackUnchecked(w) == DisconnectEntry(w)

\* the call_later callback of forward()
DisconnectCallback(w) ==
    IF w.p.status = "IDLE" THEN DisconnectEntry(w) ELSE Done(w)

\* ------------------------------------------------------------------ connect
ConnectEntry(w) == Suspend(w, At("connect_settings"))

ConnectAfterSettings(w) ==
    IF w.p.voice_client THEN Done(w) ELSE Suspend(w, At("connect_wait"))

\* channel.connect() raises when the guild already has a voice client
ConnectAfterWait(w) ==
    IF w.p.voice_client THEN Raise(w)
    ELSE Done([w EXCEPT !.p.voice_client = TRUE, !.vc = IdleVoice])

\* ------------------------------------------------------------------- pause
PauseEntry(w) ==
    IF w.p.status # "PLAYING" THEN Raise(w)
    ELSE LET w1 == IF w.p.voice_client /\ IsPlaying(w)
                   THEN [w EXCEPT !.vc.state = "paused"] ELSE w
         IN Done(StopPositionTracking([w1 EXCEPT !.p.status = "PAUSED"]))

\* --------------------------------------------------------- queue operations
\* add() that puts an immediate track next whatever its playlist
AddSongNext(p, song, immediate) ==
    IF ~immediate
    THEN [p EXCEPT !.queue = Append(@, song)]
    ELSE LET insert_at == p.queue_position + 1
         IN [p EXCEPT !.queue = Take(@, insert_at) \o <<song>> \o Drop(@, insert_at)]

AddSong(p, song, immediate) ==
    IF InPlaylist(song) \/ ~immediate
    THEN [p EXCEPT !.queue = Append(@, song)]
    ELSE LET insert_at == p.queue_position + 1
         IN [p EXCEPT !.queue = Take(@, insert_at) \o <<song>> \o Drop(@, insert_at)]

\* ---------------------------------------------------- _handle_song_finished
HandleSongFinished(w) ==
    IF w.p.status # "PLAYING" THEN Done(w)
    ELSE IF w.p.loop_current_song THEN SeekEntry(w, 0)
    ELSE LET current_song == GetCurrent(w.p)
             w1 == IF w.p.loop_current_queue /\ current_song # NoSong
                   THEN [w EXCEPT !.p = AddSong(@, current_song, FALSE)]
                   ELSE w
         IN ForwardEntry(w1, 1)

\* ----------------------------------------------------------- return paths
\* what the awaiting frame fr does when the coroutine it awaited ends
Return(fr, w, ok) ==
    CASE fr.pc = "play_seek" ->
             IF ok THEN Done([w EXCEPT !.p.status = "PLAYING"]) ELSE Raise(w)
      [] fr.pc = "play_except" -> Raise(w)
      [] fr.pc = "stop_after" -> IF ok THEN StopAfter(w) ELSE Raise(w)
      [] fr.pc = "g_disconnect_stop" ->
             IF ok THEN Done([w EXCEPT !.p.status = "idle"]) ELSE Raise(w)
      [] fr.pc = "command_connect" -> IF ok THEN PlayEntry(w) ELSE Raise(w)
      [] fr.pc = "cleanup_disconnect" ->
             IF ok THEN Suspend(w, At("cleanup_clear")) ELSE Raise(w)
      [] OTHER -> [w |-> w, st |-> <<>>, ok |-> ok]

RECURSIVE Unwind(_, _)
Unwind(r, rest) ==
    IF r.st # <<>> THEN [r EXCEPT !.st = r.st \o rest]
    ELSE IF rest = <<>> THEN r
    ELSE Unwind(Return(Head(rest), r.w, r.ok), Tail(rest))


\* ======================================================================
\* GuildPlayer (src/services/guild_player.py)
\* ======================================================================
\* MusicQueue: the tracks waiting, first in first out
QueueAddToFront(q, track) == <<track>> \o q
QueueAdd(q, track) == Append(q, track)
QueueIsEmpty(q) == q = <<>>
\* get_next() removes the first track and returns it, None on an empty queue
QueueNext(q) == IF q = <<>> THEN NoSong ELSE Head(q)
QueueAfterNext(q) == IF q = <<>> THEN q ELSE Tail(q)

\* start_time / pause_time = None
NoTime == 0

\* self.volume = 50
GuildDefaultVolume == 50

InitGuildPlayer ==
    [status |-> "idle", voice_client |-> FALSE, current_track |-> NoSong,
     queue |-> <<>>, loop_current |-> FALSE, loop_queue |-> FALSE,
     start_time |-> NoTime, pause_time |-> NoTime, seek_position |-> 0,
     disconnect_timer |-> NoTimer, tracks_played |-> 0,
     volume |-> GuildDefaultVolume]

InitGuild == [p |-> InitGuildPlayer, vc |-> NoVoice, tasks |-> EmptyBag, now |-> 1]

GuildWorld == [p |-> guild.p, vc |-> guild.vc, ev |-> EmptyBag, tm |-> 0]

\* get_position(), read at time now
GuildGetPosition(p, now) ==
    IF p.start_time = NoTime \/ p.status # "playing"
    THEN p.seek_position
    ELSE (now - p.start_time) + p.seek_position

\* disconnect_timer.cancel(), the handle staying in place
GuildCancelTimer(w) ==
    IF w.p.disconnect_timer.state = "none" THEN w
    ELSE [w EXCEPT !.p.disconnect_timer.state = "cancelled"]

GuildScheduleDisconnect(w) ==
    LET w1 == GuildCancelTimer(w) IN
    IF QueueIsEmpty(w1.p.queue) THEN Suspend(w1, At("g_settings")) ELSE Done(w1)

GuildAfterSettings(w, auto_disconnect, delay) ==
    IF auto_disconnect
    THEN Done([w EXCEPT !.p.disconnect_timer = [state |-> "armed", delay |-> delay]])
    ELSE Done(w)

GuildPlayEntry(w, track) ==
    IF ~w.p.voice_client THEN Raise(w)
    ELSE LET w1 == IF track # NoSong
                   THEN [w EXCEPT !.p.queue = QueueAddToFront(@, track)] ELSE w
             w2 == IF w1.p.status = "playing" THEN VcStop(w1) ELSE w1
             w3 == IF w2.p.current_track = NoSong
                   THEN [w2 EXCEPT !.p.current_track = QueueNext(w2.p.queue),
                                   !.p.queue = QueueAfterNext(@)]
                   ELSE w2
         IN IF w3.p.current_track = NoSong
            THEN GuildScheduleDisconnect([w3 EXCEPT !.p.status = "idle"])
            ELSE Suspend([w3 EXCEPT !.p.status = "loading"],
                         [Frame("g_create", w3.p.current_track, "IDLE",
                                w3.p.seek_position) EXCEPT !.volume = w3.p.volume])

\* play() after AudioSource.create: start the source, or the except branch
GuildPlayAfterCreate(w, fr, source_ok, now) ==
    IF source_ok /\ VcCanPlay(w)
    THEN Done([VcPlay(w, fr.song, "guild", fr.volume) EXCEPT
                   !.p.status = "playing",
                   !.p.start_time = now,
                   !.p.seek_position = 0,
                   !.p.disconnect_timer = NoTimer])
    ELSE GuildScheduleDisconnect([w EXCEPT !.p.status = "idle",
                                           !.p.current_track = NoSong])

GuildPauseEntry(w, now) ==
    IF w.p.status = "playing" /\ w.p.voice_client
    THEN Done([w EXCEPT !.vc.state = IF @ = "playing" THEN "paused" ELSE @,
                        !.p.status = "paused",
                        !.p.pause_time = now])
    ELSE Done(w)

GuildResumeEntry(w, now) ==
    IF w.p.status = "paused" /\ w.p.voice_client
    THEN Done([w EXCEPT !.vc.state = IF @ = "paused" THEN "playing" ELSE @,
                        !.p.status = "playing",
                        !.p.start_time =
                            IF w.p.pause_time # NoTime /\ @ # NoTime
                            THEN @ + (now - w.p.pause_time) ELSE @,
                        !.p.pause_time = NoTime])
    ELSE Done(w)

GuildStopEntry(w) ==
    LET w1 == IF w.p.voice_client /\ IsPlaying(w) THEN VcStop(w) ELSE w IN
    GuildScheduleDisconnect([w1 EXCEPT !.p.status = "idle",
                                       !.p.current_track = NoSong,
                                       !.p.start_time = NoTime,
                                       !.p.pause_time = NoTime,
                                       !.p.seek_position = 0])

GuildSeekEntry(w, position) ==
    IF w.p.current_track = NoSong THEN Raise(w)
    ELSE LET w1 == [w EXCEPT !.p.seek_position = position] IN
         IF w1.p.status \in {"playing", "paused"}
         THEN GuildPlayEntry(w1, NoSong) ELSE Done(w1)

GuildPlaybackFinished(w0) ==
    LET w == IF w0.p.current_track # NoSong /\ w0.p.start_time # NoTime
             THEN [w0 EXCEPT !.p.tracks_played = @ + 1] ELSE w0
    IN
    IF w.p.loop_current /\ w.p.current_track # NoSong
    THEN GuildPlayEntry(w, w.p.current_track)
    ELSE LET w1 == IF w.p.loop_queue /\ w.p.current_track # NoSong
                   THEN [w EXCEPT !.p.queue = QueueAdd(@, w.p.current_track)]
                   ELSE w
         IN GuildPlayEntry([w1 EXCEPT !.p.current_track = NoSong], NoSong)

GuildConnectEntry(w) ==
    IF w.p.voice_client THEN Done(w) ELSE Suspend(w, At("g_connect_wait"))

\* the stored default_volume of the guild is taken to be the initial one
GuildConnectAfter(w) ==
    IF w.p.voice_client THEN Raise(w)
    ELSE Done([w EXCEPT !.p.voice_client = TRUE, !.vc = IdleVoice,
                        !.p.volume = GuildDefaultVolume])

GuildDisconnectEntry(w) ==
    IF w.p.voice_client
    THEN Suspend([VcStop(w) EXCEPT !.vc = NoVoice], At("g_disconnect_wait"))
    ELSE Done(w)

GuildDisconnectAfter(w) ==
    LET w1 == [w EXCEPT !.p.voice_client = FALSE] IN
    IF w1.p.status = "playing"
    THEN Await(GuildStopEntry(w1), At("g_disconnect_stop"))
    ELSE Done([w1 EXCEPT !.p.status = "idle"])

\* _auto_disconnect() once its sleep is over
GuildAutoDisconnect(w) ==
    IF QueueIsEmpty(w.p.queue) /\ w.p.status = "idle"
    THEN GuildDisconnectEntry(w) ELSE Done(w)

\* cleanup(): the timer is cancelled, disconnect() is awaited, and then
\* queue.clear()
GuildCleanupEntry(w) ==
    Unwind(GuildDisconnectEntry(GuildCancelTimer(w)), <<At("cleanup_disconnect")>>)

\* ------------------------------------------------------------ initial state
\* settings.secondsToWaitAfterQueueEmpties, as stored for the guild
Delays == {0, 30}

NoObs == [cmd |-> "none"]

\* PlayerManager.__init__: players maps a guild to its GuildPlayer, 0 for
\* no entry; the instances are numbered as they are created; cleaned are
\* the instances whose cleanup() has returned, removing the remove() calls
\* awaiting cleanup(). status and idle are the status of the guild's player
\* and the seconds since its last_activity; sweep is what is left of the
\* to_remove list of cleanup_inactive_players()
NoPlayer == 0

InitManager ==
    [players |-> [g \in Guilds |-> NoPlayer], created |-> 0, cleaned |-> {},
     removing |-> {},
     status |-> [g \in Guilds |-> "idle"], idle |-> [g \in Guilds |-> 0],
     sweep |-> {}]

\* an empty cache directory and index, no caching task scheduled
InitCache ==
    [final |-> FALSE, tmp |-> FALSE, index |-> FALSE,
     downloads |-> 0, commits |-> 0, job |-> [g \in Guilds |-> "none"],
     writers |-> {}, shared |-> FALSE, whole |-> FALSE]

InitPlayer ==
    [queue |-> <<>>, queue_position |-> 0, status |-> "IDLE",
     position_in_seconds |-> 0, position_tracker_task |-> FALSE,
     loop_current_song |-> FALSE, loop_current_queue |-> FALSE,
     last_song_url |-> 0, voice_client |-> FALSE,
     disconnect_timer |-> NoTimer, volume |-> NoVolume]

Init ==
    /\ player = InitPlayer
    /\ vc = NoVoice
    /\ tasks = EmptyBag
    /\ timers = 0
    /\ obs = NoObs
    /\ guild = InitGuild
    /\ players = {Home}
    /\ cache = InitCache
    /\ manager = InitManager

\* -------------------------------------------------------------- transitions
One(t) == SetToBag({t})

\* the state a coroutine leaves behind, with the tasks still in flight
Commit(w, ts) ==
    /\ Len(w.p.queue) <= MaxQueue
    /\ w.tm <= MaxTimers
    /\ BagCardinality(ts (+) w.ev) <= MaxTasks
    /\ player' = w.p
    /\ vc' = w.vc
    /\ tasks' = ts (+) w.ev
    /\ timers' = w.tm
    /\ UNCHANGED <<guild, players, cache, manager>>

\* a command starts: it runs to its first await
Start(root, r) ==
    Commit(r.w, tasks (+) (IF r.st = <<>> THEN EmptyBag ELSE One(Task(root, r.st))))

\* a suspended task t continues with r, the result of the frame it waited in
Run(t, r) ==
    LET u == Unwind(r, Tail(t.stack)) IN
    Commit(u.w, (tasks (-) One(t))
                 (+) (IF u.st = <<>> THEN EmptyBag ELSE One(Task(t.root, u.st))))

Pending(pc) == {t \in BagToSet(tasks) : Head(t.stack).pc = pc}

SeekTargets == 0..MaxPos
SkipCounts == 1..MaxSkip
Positions == 0..MaxQueue

\* ---- commands
Add(song, immediate) ==
    Commit([World EXCEPT !.p = AddSong(@, song, immediate)], tasks)

\* clear() that keeps the tracks up to the cursor
ClearedUpcoming(p) == [p EXCEPT !.queue = Take(@, p.queue_position + 1)]

\* the player clear() leaves
Cleared(p) ==
    LET current == GetCurrent(p) IN
    [p EXCEPT !.queue = IF current # NoSong THEN <<current>> ELSE <<>>,
              !.queue_position = 0]

Clear == Commit([World EXCEPT !.p = Cleared(player)], tasks)

Shufflings(n) == {f \in [1..n -> 1..n] : \A i, j \in 1..n : i # j => f[i] # f[j]}

\* shuffle() that orders the head of the list by f
ShuffledFromStart(p, f) ==
    [i \in 1..Len(p.queue) |-> IF i <= QueueSize(p) THEN p.queue[f[i]] ELSE p.queue[i]]

\* the queue shuffle() leaves when random.shuffle orders upcoming by f
Shuffled(p, f) ==
    LET upcoming == GetQueue(p) IN
    Take(p.queue, p.queue_position + 1) \o [i \in 1..Len(upcoming) |-> upcoming[f[i]]]

Shuffle ==
    \E f \in Shufflings(QueueSize(player)) :
        Commit([World EXCEPT !.p.queue = Shuffled(player, f)], tasks)

\* remove_from_queue() counting index from the first upcoming track as 0
RemovedFromZero(p, index, amount) ==
    LET actual_index == p.queue_position + 1 + index IN
    IF 0 <= actual_index /\ actual_index < Len(p.queue)
    THEN Take(p.queue, actual_index) \o Drop(p.queue, actual_index + amount)
    ELSE p.queue

\* the queue remove_from_queue(index, amount) leaves
Removed(p, index, amount) ==
    LET actual_index == p.queue_position + index IN
    IF 0 <= actual_index /\ actual_index < Len(p.queue)
    THEN Take(p.queue, actual_index) \o Drop(p.queue, actual_index + amount)
    ELSE p.queue

\* move(): both positions are inside the list, else it raises
InBounds(p, from_pos, to_pos) ==
    LET actual_from == p.queue_position + from_pos
        actual_to == p.queue_position + to_pos
    IN /\ 0 <= actual_from /\ actual_from < Len(p.queue)
       /\ 0 <= actual_to /\ actual_to < Len(p.queue)

\* the queue move(from_pos, to_pos) leaves: pop(actual_from), insert(actual_to)
Moved(p, from_pos, to_pos) ==
    LET actual_from == p.queue_position + from_pos
        actual_to == p.queue_position + to_pos
        song == p.queue[actual_from + 1]
        popped == Take(p.queue, actual_from) \o Drop(p.queue, actual_from + 1)
    IN Take(popped, actual_to) \o <<song>> \o Drop(popped, actual_to)

RemoveFromQueue(index, amount) ==
    Commit([World EXCEPT !.p.queue = Removed(player, index, amount)], tasks)

Move(from_pos, to_pos) ==
    /\ InBounds(player, from_pos, to_pos)
    /\ Commit([World EXCEPT !.p.queue = Moved(player, from_pos, to_pos)], tasks)

\* /loop without the `if player.loop_current_queue` of line 290
LoopKeepingQueueLoop ==
    Commit(IF player.status = "IDLE" THEN World
           ELSE [World EXCEPT !.p.loop_current_song = ~@], tasks)

Loop ==
    Commit(IF player.status = "IDLE" THEN World
           ELSE [World EXCEPT !.p.loop_current_queue = FALSE,
                              !.p.loop_current_song = ~@], tasks)

LoopQueue ==
    Commit(IF player.status = "IDLE" \/ QueueSize(player) < 1 THEN World
           ELSE [World EXCEPT !.p.loop_current_song = FALSE,
                              !.p.loop_current_queue = ~@], tasks)

Connect == Start("connect", ConnectEntry(World))
Disconnect == Start("disconnect", DisconnectEntry(World))
Play == Start("play", PlayEntry(World))
Pause == Start("pause", PauseEntry(World))
Seek(position_seconds) == Start("seek", SeekEntry(World, position_seconds))
Forward(skip) == Start("forward", ForwardEntry(World, skip))
Back == Start("back", BackEntry(World))
Stop == Start("stop", StopEntry(World))

\* voice_client.source is set while a source plays or is paused
HasSource(w) == w.p.voice_client /\ w.vc.state \in {"playing", "paused"}

\* set_volume() storing the level as it is given
SetVolumeUnclamped(w, level) ==
    LET w1 == [w EXCEPT !.p.volume = level] IN
    IF HasSource(w1) THEN [w1 EXCEPT !.vc.volume = GetVolume(w1.p)] ELSE w1

\* set_volume(), of Player and of GuildPlayer
SetVolume(w, level) ==
    LET w1 == [w EXCEPT !.p.volume = Clamp(level)] IN
    IF HasSource(w1) THEN [w1 EXCEPT !.vc.volume = GetVolume(w1.p)] ELSE w1

Levels == {-5, 0, 40, 100, 200}

\* ---- the environment
\* update_position(): one second of the position tracker; nothing ties the
\* counter to the length of the track or to the source that is playing
Tick ==
    /\ player.position_tracker_task
    /\ player.position_in_seconds < MaxPos
    /\ Commit([World EXCEPT !.p.position_in_seconds = @ + 1], tasks)

\* the source of the voice client reaches its end
SongEnds ==
    /\ vc.state = "playing"
    /\ Commit(VcStop(World), tasks)

\* the timer self.disconnect_timer refers to expires
TimerFires ==
    /\ player.disconnect_timer.state = "armed"
    /\ Commit([World EXCEPT !.p.disconnect_timer.state = "spent",
                            !.ev = One(Task("timer", <<At("timer_cb")>>))], tasks)

\* a timer that forward() overwrote without cancelling expires
OldTimerFires ==
    /\ timers > 0
    /\ Commit([World EXCEPT !.tm = @ - 1,
                            !.ev = One(Task("timer", <<At("timer_cb")>>))], tasks)

\* ---- coroutines continue
PlaySourceReady ==
    \E t \in Pending("play_get_source"), ok \in BOOLEAN :
        Run(t, PlayAfterSource(World, Head(t.stack), ok))

PlaySleepDone ==
    \E t \in Pending("play_sleep") : Run(t, PlayStart(World, Head(t.stack)))

SeekSourceReady ==
    \E t \in Pending("seek_get_source"), ok \in BOOLEAN :
        Run(t, SeekAfterSource(World, Head(t.stack), ok))

ForwardSettingsLoaded(disconnect_delay) ==
    \E t \in Pending("forward_settings") :
        Run(t, ForwardAfterSettings(World, disconnect_delay))

DisconnectDone ==
    \E t \in Pending("disconnect_wait") : Run(t, DisconnectAfter(World))

ConnectSettingsLoaded ==
    \E t \in Pending("connect_settings") : Run(t, ConnectAfterSettings(World))

ConnectDone ==
    \E t \in Pending("connect_wait") : Run(t, ConnectAfterWait(World))

\* the task after_playing() created runs _handle_song_finished
SongFinished ==
    \E t \in Pending("hsf") : Run(t, HandleSongFinished(World))

\* seek()'s after_playing() runs on the audio thread, where
\* asyncio.get_event_loop() has no loop to return: the handler is either
\* run or never scheduled
AfterSeekRuns ==
    \E t \in Pending("after_seek") : Run(t, HandleSongFinished(World))

AfterSeekLost ==
    \E t \in Pending("after_seek") : Run(t, Done(World))

TimerCallback ==
    \E t \in Pending("timer_cb") : Run(t, DisconnectCallback(World))

\* _get_audio_source() returning a source: the fetch that succeeds
PlaySourceLoaded ==
    \E t \in Pending("play_get_source") :
        Run(t, PlayAfterSource(World, Head(t.stack), TRUE))

SeekSourceLoaded ==
    \E t \in Pending("seek_get_source") :
        Run(t, SeekAfterSource(World, Head(t.stack), TRUE))

\* ---- PlayerManager: the registry of players
\* get_player() / get() for a guild that has no player yet
GetPlayer(g) ==
    /\ g \notin players
    /\ players' = players \cup {g}
    /\ UNCHANGED <<player, vc, tasks, timers, guild, cache, manager>>

\* remove(): the player of another guild is evicted
RemovePlayer(g) ==
    /\ g \in players
    /\ g # Home
    /\ players' = players \ {g}
    /\ UNCHANGED <<player, vc, tasks, timers, guild, cache, manager>>

\* ---- the file cache: every player asks for the same url, whose md5 is
\* the cache key; final is the file at final_path, tmp the one at tmp_path,
\* index the entry file_cache keeps for the key
CacheStep(c) ==
    /\ cache' = c
    /\ UNCHANGED <<player, vc, tasks, timers, obs, guild, players, manager>>

\* _get_audio_source(): a hit is played from the cache path; a miss is
\* streamed and start_cache_task is handed to call_later
GetAudioSource(g) ==
    /\ g \in players
    /\ cache.job[g] = "none"
    /\ CacheStep([cache EXCEPT !.job[g] =
                      IF cache.index /\ cache.final THEN "cached" ELSE "scheduled"])

\* should_cache, computed for a YouTube source that is streamed
ShouldCache(is_live, duration, seeking) ==
    ~is_live /\ duration < CacheMaxSeconds /\ ~seeking

\* info['duration'] as yt_dlp reports it
Durations == {0, CacheMaxSeconds - 1, CacheMaxSeconds, CacheMaxSeconds + 1}

\* _get_audio_source(song, seek_position, duration) as a whole: a cached
\* file that opens is played; otherwise the origin is streamed, an HLS url
\* directly, a YouTube url after extract_info, where the fill is scheduled.
\* seeking stands for `seek_position is not None`
OpenSource(g, hls, seeking, seek_position, is_live, duration, cache_opens) ==
    LET hit == cache.index /\ cache.final /\ cache_opens
        fill == ~hit /\ ~hls /\ ShouldCache(is_live, duration, seeking)
    IN
    /\ g \in players
    /\ cache.job[g] \in {"none", "cached", "streamed", "done"}
    /\ cache.downloads < MaxDownloads
    /\ ~seeking => seek_position = 0
    /\ cache' = [cache EXCEPT !.job[g] = IF hit THEN "cached"
                                         ELSE IF fill THEN "scheduled"
                                         ELSE "streamed"]
    /\ obs' = [cmd |-> "source", hit |-> hit, hls |-> hls, seeking |-> seeking,
               seek_position |-> seek_position, is_live |-> is_live,
               duration |-> duration, fill |-> fill]
    /\ UNCHANGED <<player, vc, tasks, timers, guild, players, manager>>

\* _cache_song() up to the spawning of ffmpeg
CacheSongStarts(g) ==
    /\ cache.job[g] = "scheduled"
    /\ CacheStep([cache EXCEPT !.job[g] = IF cache.final THEN "done" ELSE "spawn"])

\* ffmpeg -y has been spawned and opens tmp_path for writing: a file that
\* is there already is truncated and from then on written by both; writers
\* are the processes that have the file at tmp_path open
FfmpegOpens(g) ==
    /\ cache.job[g] = "spawn"
    /\ CacheStep([cache EXCEPT !.job[g] = "communicate", !.tmp = TRUE,
                               !.downloads = @ + 1,
                               !.writers = @ \cup {g}, !.shared = cache.tmp])

\* process.communicate() returns: the file at tmp_path, whoever wrote it, is
\* removed or moved into place; whole says that the file at final_path is
\* the finished output of a single ffmpeg
FfmpegExits(g, returncode) ==
    /\ cache.job[g] = "communicate"
    /\ CacheStep(IF returncode # 0
                 THEN [cache EXCEPT !.job[g] = "done", !.tmp = FALSE,
                                    !.writers = {}, !.shared = FALSE]
                 ELSE IF cache.tmp
                      THEN [cache EXCEPT !.job[g] = "cache_file", !.tmp = FALSE,
                                         !.final = TRUE,
                                         !.whole = cache.writers = {g} /\ ~cache.shared,
                                         !.writers = {}, !.shared = FALSE]
                      ELSE [cache EXCEPT !.job[g] = "done"])

\* file_cache.cache_file() has registered the key
CacheFileDone(g) ==
    /\ cache.job[g] = "cache_file"
    /\ CacheStep([cache EXCEPT !.job[g] = "done", !.index = TRUE,
                               !.commits = @ + 1])

\* ---- PlayerManager of the GuildPlayers
ManagerStep(name, g, result, m) ==
    /\ manager' = m
    /\ obs' = [cmd |-> name, arg |-> g, result |-> result, before |-> manager]
    /\ UNCHANGED <<player, vc, tasks, timers, guild, players, cache>>

\* get() that makes a new player whether or not the guild has one
ManagerGetAlwaysCreates(g, found) ==
    /\ manager.created < MaxCreated
    /\ ManagerStep("get", g, manager.created + 1,
                   [manager EXCEPT !.players[g] = manager.created + 1,
                                   !.created = @ + 1])

\* get(): found is what bot.get_guild() returns for the id
ManagerGet(g, found) ==
    IF manager.players[g] # NoPlayer
    THEN ManagerStep("get", g, manager.players[g], manager)
    ELSE IF ~found THEN ManagerStep("get", g, NoPlayer, manager)
    ELSE /\ manager.created < MaxCreated
         /\ ManagerStep("get", g, manager.created + 1,
                        [manager EXCEPT !.players[g] = manager.created + 1,
                                        !.created = @ + 1,
                                        !.status[g] = "idle", !.idle[g] = 0])

ManagerGetExisting(g) ==
    ManagerStep("get_existing", g, manager.players[g], manager)

\* remove() up to `await player.cleanup()`; the callers in the manager
\* (the cleanup loop, shutdown) never have two removals of a guild in flight
ManagerRemove(g) ==
    /\ \A r \in manager.removing : r.guild # g
    /\ ManagerStep("remove", g, manager.players[g],
                   IF manager.players[g] = NoPlayer THEN manager
                   ELSE [manager EXCEPT !.removing =
                            @ \cup {[guild |-> g, player |-> manager.players[g]]}])

\* cleanup() has returned: del self.players[guild_id]
ManagerRemoveDone(r) ==
    /\ r \in manager.removing
    /\ ManagerStep("removed", r.guild, r.player,
                   [manager EXCEPT !.removing = @ \ {r},
                                   !.cleaned = @ \cup {r.player},
                                   !.players[r.guild] = NoPlayer,
                                   !.status[r.guild] = "idle",
                                   !.idle[r.guild] = 0])

\* ---- inactivity
GuildStatuses == {"idle", "loading", "playing", "paused"}
IdleTimes == {0, InactiveSeconds, InactiveSeconds + 1}

\* GuildPlayer.is_inactive()
IsInactive(status, idle) ==
    IF status = "playing" THEN FALSE ELSE idle > InactiveSeconds

\* the player of guild g changes its status
StatusChanges(g, status) ==
    /\ manager.players[g] # NoPlayer
    /\ manager.status[g] # status
    /\ manager' = [manager EXCEPT !.status[g] = status]
    /\ obs' = NoObs
    /\ UNCHANGED <<player, vc, tasks, timers, guild, players, cache>>

\* time passes, or last_activity is set to now
IdleChanges(g, idle) ==
    /\ manager.players[g] # NoPlayer
    /\ manager.idle[g] # idle
    /\ manager' = [manager EXCEPT !.idle[g] = idle]
    /\ obs' = NoObs
    /\ UNCHANGED <<player, vc, tasks, timers, guild, players, cache>>

\* cleanup_inactive_players(): the first loop, building to_remove
SweepStarts ==
    LET to_remove == {g \in Guilds : /\ manager.players[g] # NoPlayer
                                      /\ IsInactive(manager.status[g], manager.idle[g])}
    IN
    /\ manager.sweep = {}
    /\ manager.removing = {}
    /\ ManagerStep("sweep", Home, to_remove, [manager EXCEPT !.sweep = to_remove])

\* cleanup_inactive_players(): the second loop, one `await self.remove()`
\* after the other
SweepRemoves(g) ==
    /\ g \in manager.sweep
    /\ manager.removing = {}
    /\ ManagerStep("evict", g, manager.players[g],
                   IF manager.players[g] = NoPlayer
                   THEN [manager EXCEPT !.sweep = @ \ {g}]
                   ELSE [manager EXCEPT !.sweep = @ \ {g}, !.removing =
                            @ \cup {[guild |-> g, player |-> manager.players[g]]}])

\* ---- who may act
\* no coroutine of the player is in flight
Quiet == tasks = EmptyBag

\* what a caller can see of the player: queue, cursor, status, loop flags
\* and whether it is connected
Observed(p) ==
    [queue |-> p.queue, queue_position |-> p.queue_position, status |-> p.status,
     loop_current_song |-> p.loop_current_song,
     loop_current_queue |-> p.loop_current_queue,
     voice_client |-> p.voice_client]

\* a command issued once the previous one and its callbacks are through
Cmd(name, arg, A) ==
    /\ Quiet
    /\ A
    /\ obs' = [cmd |-> name, arg |-> arg, p |-> Observed(player)]

\* an event of the environment, recorded like a command
Env(name, A) == A /\ obs' = [cmd |-> name, arg |-> 0, p |-> Observed(player)]

\* the same, with nothing recorded
Plain(A) == Quiet /\ A /\ obs' = NoObs

\* a command issued at any time
Free(A) == A /\ obs' = NoObs

\* a step of a coroutine in flight, or of the position tracker
Step(A) == A /\ UNCHANGED obs

\* ---- every command at any time: coroutines overlap freely
Next ==
    \/ \E song \in Songs, immediate \in BOOLEAN : Free(Add(song, immediate))
    \/ Free(Clear)
    \/ Free(Shuffle)
    \/ \E index \in 1..MaxQueue, amount \in 1..2 : Free(RemoveFromQueue(index, amount))
    \/ \E from_pos \in Positions, to_pos \in Positions : Free(Move(from_pos, to_pos))
    \/ Free(Loop)
    \/ Free(LoopQueue)
    \/ Free(Connect)
    \/ Free(Disconnect)
    \/ Free(Play)
    \/ Free(Pause)
    \/ \E position_seconds \in SeekTargets : Free(Seek(position_seconds))
    \/ \E skip \in SkipCounts : Free(Forward(skip))
    \/ Free(Back)
    \/ Free(Stop)
    \/ Step(Tick)
    \/ Free(SongEnds)
    \/ Step(TimerFires)
    \/ Step(OldTimerFires)
    \/ Step(PlaySourceReady)
    \/ Step(PlaySleepDone)
    \/ Step(SeekSourceReady)
    \/ \E d \in Delays : Step(ForwardSettingsLoaded(d))
    \/ Step(DisconnectDone)
    \/ Step(ConnectSettingsLoaded)
    \/ Step(ConnectDone)
    \/ Step(SongFinished)
    \/ Step(AfterSeekRuns)
    \/ Step(AfterSeekLost)
    \/ Step(TimerCallback)

Spec == Init /\ [][Next]_vars

\* ---- the queue operations, one command after the other
NextQueue ==
    \/ \E song \in Songs, immediate \in BOOLEAN : Plain(Add(song, immediate))
    \/ Plain(Clear)
    \/ Plain(Shuffle)
    \/ \E index \in 1..MaxQueue, amount \in 1..2 :
           Plain(RemoveFromQueue(index, amount))
    \/ \E from_pos \in Positions, to_pos \in Positions :
           Plain(Move(from_pos, to_pos))
    \/ Plain(Connect)
    \/ Plain(Play)
    \/ \E skip \in SkipCounts : Plain(Forward(skip))
    \/ Plain(Back)
    \/ Plain(Stop)
    \/ Step(TimerFires)
    \/ Step(OldTimerFires)
    \/ Step(PlaySourceReady)
    \/ Step(PlaySleepDone)
    \/ \E d \in Delays : Step(ForwardSettingsLoaded(d))
    \/ Step(DisconnectDone)
    \/ Step(ConnectSettingsLoaded)
    \/ Step(ConnectDone)
    \/ Step(SongFinished)
    \/ Step(TimerCallback)

SpecQueue == Init /\ [][NextQueue]_vars

\* ---- skipping: play, skip, natural ends, one command after the other
NextSkip ==
    \/ \E song \in Songs : Plain(Add(song, FALSE))
    \/ Plain(Connect)
    \/ Plain(Play)
    \/ \E skip \in SkipCounts : Cmd("forward", skip, Forward(skip))
    \/ Env("ends", SongEnds)
    \/ Step(TimerFires)
    \/ Step(OldTimerFires)
    \/ Step(PlaySourceReady)
    \/ Step(PlaySleepDone)
    \/ \E d \in Delays : Step(ForwardSettingsLoaded(d))
    \/ Step(DisconnectDone)
    \/ Step(ConnectSettingsLoaded)
    \/ Step(ConnectDone)
    \/ Step(SongFinished)
    \/ Step(TimerCallback)

SpecSkip == Init /\ [][NextSkip]_vars

\* ---- the loop modes: loop, loop-queue, skip, back, play, natural ends
NextLoop ==
    \/ \E song \in Songs : Plain(Add(song, FALSE))
    \/ Plain(Connect)
    \/ Plain(Play)
    \/ Cmd("loop", 0, Loop)
    \/ Cmd("loop_queue", 0, LoopQueue)
    \/ \E skip \in SkipCounts : Plain(Forward(skip))
    \/ Plain(Back)
    \/ Free(SongEnds)
    \/ Step(TimerFires)
    \/ Step(OldTimerFires)
    \/ Step(PlaySourceReady)
    \/ Step(PlaySleepDone)
    \/ Step(SeekSourceReady)
    \/ \E d \in Delays : Step(ForwardSettingsLoaded(d))
    \/ Step(DisconnectDone)
    \/ Step(ConnectSettingsLoaded)
    \/ Step(ConnectDone)
    \/ Step(SongFinished)
    \/ Step(AfterSeekRuns)
    \/ Step(AfterSeekLost)
    \/ Step(TimerCallback)

SpecLoop == Init /\ [][NextLoop]_vars

\* ---- seeking: play, pause, seek and the position tracker
NextSeek ==
    \/ \E song \in Songs : Plain(Add(song, FALSE))
    \/ Plain(Connect)
    \/ Plain(Play)
    \/ Plain(Pause)
    \/ \E position_seconds \in SeekTargets :
           Cmd("seek", position_seconds, Seek(position_seconds))
    \/ Step(Tick)
    \/ Step(SongEnds)
    \/ Step(TimerFires)
    \/ Step(OldTimerFires)
    \/ Step(PlaySourceReady)
    \/ Step(PlaySleepDone)
    \/ Step(SeekSourceReady)
    \/ \E d \in Delays : Step(ForwardSettingsLoaded(d))
    \/ Step(DisconnectDone)
    \/ Step(ConnectSettingsLoaded)
    \/ Step(ConnectDone)
    \/ Step(SongFinished)
    \/ Step(AfterSeekRuns)
    \/ Step(AfterSeekLost)
    \/ Step(TimerCallback)

SpecSeek == Init /\ [][NextSeek]_vars

\* ---- repeating: the loop modes and tracks ending between commands, every
\* source loading
NextRepeat ==
    \/ \E song \in Songs : Plain(Add(song, FALSE))
    \/ Plain(Connect)
    \/ Plain(Play)
    \/ Plain(Loop)
    \/ Plain(LoopQueue)
    \/ Cmd("ends", 0, SongEnds)
    \/ Step(Tick)
    \/ Step(TimerFires)
    \/ Step(OldTimerFires)
    \/ Step(PlaySourceLoaded)
    \/ Step(PlaySleepDone)
    \/ Step(SeekSourceLoaded)
    \/ \E d \in Delays : Step(ForwardSettingsLoaded(d))
    \/ Step(DisconnectDone)
    \/ Step(ConnectSettingsLoaded)
    \/ Step(ConnectDone)
    \/ Step(SongFinished)
    \/ Step(AfterSeekRuns)
    \/ Step(AfterSeekLost)
    \/ Step(TimerCallback)

SpecRepeat == Init /\ [][NextRepeat]_vars

\* ---- a session: play, pause, resume, disconnect, reconnect, stop, one
\* command after the other, every source loading
\* the previous command was a pause() that took effect
Paused == obs.cmd = "pause" /\ obs.p.status = "PLAYING"

\* a command recorded with what its caller can read beforehand: the player,
\* get_position(), is_paused() / is_playing() of the voice client
Session(name, A) ==
    /\ Quiet
    /\ A
    /\ obs' = [cmd |-> name, arg |-> player.position_in_seconds,
               p |-> Observed(player), vc |-> vc.state,
               after |-> IF Paused THEN "pause" ELSE "other"]

NextSession ==
    \/ \E song \in Songs : Session("add", Add(song, FALSE))
    \/ Session("connect", Connect)
    \/ Session("play", Play)
    \/ Session("pause", Pause)
    \/ Session("stop", Stop)
    \/ Session("disconnect", Disconnect)
    \/ Step(Tick)
    \/ Step(SongEnds)
    \/ Step(TimerFires)
    \/ Step(OldTimerFires)
    \/ Step(PlaySourceLoaded)
    \/ Step(PlaySleepDone)
    \/ Step(SeekSourceLoaded)
    \/ \E d \in Delays : Step(ForwardSettingsLoaded(d))
    \/ Step(DisconnectDone)
    \/ Step(ConnectSettingsLoaded)
    \/ Step(ConnectDone)
    \/ Step(SongFinished)
    \/ Step(AfterSeekRuns)
    \/ Step(AfterSeekLost)
    \/ Step(TimerCallback)

SpecSession == Init /\ [][NextSession]_vars

\* ---- two commands whose coroutines overlap
Command(name, arg) == [name |-> name, arg |-> arg]

RaceCommands ==
    {Command("forward", skip) : skip \in SkipCounts}
    \cup {Command("seek", position_seconds) : position_seconds \in 0..1}
    \cup {Command("pause", 0), Command("back", 0)}

\* the command runs to its first await
Enter(c, w) ==
    CASE c.name = "forward" -> ForwardEntry(w, c.arg)
      [] c.name = "seek" -> SeekEntry(w, c.arg)
      [] c.name = "pause" -> PauseEntry(w)
      [] c.name = "back" -> BackEntry(w)

\* the player with its voice client, pending timers and tasks in flight
System(w, ts) == [p |-> w.p, vc |-> w.vc, tm |-> w.tm, ts |-> ts (+) w.ev]
WorldOf(s) == [p |-> s.p, vc |-> s.vc, ev |-> EmptyBag, tm |-> s.tm]

Launch(s, c) ==
    LET r == Enter(c, WorldOf(s)) IN
    System(r.w, s.ts (+) (IF r.st = <<>> THEN EmptyBag ELSE One(Task(c.name, r.st))))

\* what a task suspended at an await does when the event loop resumes it
Resume(t, w) ==
    LET fr == Head(t.stack) IN
    CASE fr.pc = "play_get_source" -> {PlayAfterSource(w, fr, ok) : ok \in BOOLEAN}
      [] fr.pc = "play_sleep" -> {PlayStart(w, fr)}
      [] fr.pc = "seek_get_source" -> {SeekAfterSource(w, fr, ok) : ok \in BOOLEAN}
      [] fr.pc = "forward_settings" -> {ForwardAfterSettings(w, d) : d \in Delays}
      [] fr.pc = "disconnect_wait" -> {DisconnectAfter(w)}
      [] fr.pc = "connect_settings" -> {ConnectAfterSettings(w)}
      [] fr.pc = "connect_wait" -> {ConnectAfterWait(w)}
      [] fr.pc = "hsf" -> {HandleSongFinished(w)}
      [] fr.pc = "after_seek" -> {HandleSongFinished(w), Done(w)}
      [] fr.pc = "timer_cb" -> {DisconnectCallback(w)}

\* one turn of the event loop
Successors(s) ==
    UNION {{LET u == Unwind(r, Tail(t.stack)) IN
            System(u.w, (s.ts (-) One(t))
                        (+) (IF u.st = <<>> THEN EmptyBag ELSE One(Task(t.root, u.st))))
            : r \in Resume(t, WorldOf(s))} : t \in BagToSet(s.ts)}

RECURSIVE Reachable(_, _)
Reachable(frontier, seen) ==
    IF frontier = {} THEN seen
    ELSE Reachable((UNION {Successors(s) : s \in frontier}) \ (seen \cup frontier),
                   seen \cup frontier)

\* the states the event loop can come to rest in, started anywhere in S
Settled(S) == {s \in Reachable(S, {}) : s.ts = EmptyBag}

\* c1 run to completion with its callbacks, then c2 likewise
Serial(s, c1, c2) == Settled({Launch(s1, c2) : s1 \in Settled({Launch(s, c1)})})

\* the part of the player a serial order has to reproduce
FinalState(p) ==
    [queue |-> p.queue, queue_position |-> p.queue_position, status |-> p.status,
     loop_current_song |-> p.loop_current_song,
     loop_current_queue |-> p.loop_current_queue]

\* the first command of a pair, issued with the event loop at rest
RaceFirst(c) ==
    /\ Quiet
    /\ obs.cmd # "race"
    /\ Start(c.name, Enter(c, World))
    /\ obs' = [cmd |-> "race", n |-> 1, first |-> c, second |-> c,
               s |-> System(World, EmptyBag)]

\* the second one, issued before the first has returned
RaceSecond(c) ==
    /\ obs.cmd = "race"
    /\ obs.n = 1
    /\ \E t \in BagToSet(tasks) : t.root = obs.first.name
    /\ Start(c.name, Enter(c, World))
    /\ obs' = [obs EXCEPT !.n = 2, !.second = c]

\* what brings the player to the state the pair is issued in
Setup(A) == obs.cmd # "race" /\ Plain(A)

NextRace ==
    \/ \E song \in Songs : Setup(Add(song, FALSE))
    \/ Setup(Connect)
    \/ Setup(Play)
    \/ \E c \in RaceCommands : RaceFirst(c)
    \/ \E c \in RaceCommands : RaceSecond(c)
    \/ Step(PlaySourceReady)
    \/ Step(PlaySleepDone)
    \/ Step(SeekSourceReady)
    \/ \E d \in Delays : Step(ForwardSettingsLoaded(d))
    \/ Step(ConnectSettingsLoaded)
    \/ Step(ConnectDone)
    \/ Step(SongFinished)
    \/ Step(AfterSeekRuns)
    \/ Step(AfterSeekLost)

SpecRace == Init /\ [][NextRace]_vars

\* ---- the GuildPlayer: commands one after the other, and the clock
GuildCommit(w, ts) ==
    /\ Len(w.p.queue) <= MaxQueue
    /\ w.p.tracks_played <= MaxPlayed
    /\ BagCardinality(ts (+) w.ev) <= MaxTasks
    /\ guild' = [guild EXCEPT !.p = w.p, !.vc = w.vc, !.tasks = ts (+) w.ev]
    /\ UNCHANGED <<player, vc, tasks, timers, players, cache, manager>>

GuildStart(root, r) ==
    GuildCommit(r.w, guild.tasks
                     (+) (IF r.st = <<>> THEN EmptyBag ELSE One(Task(root, r.st))))

GuildRun(t, r) ==
    LET u == Unwind(r, Tail(t.stack)) IN
    GuildCommit(u.w, (guild.tasks (-) One(t))
                     (+) (IF u.st = <<>> THEN EmptyBag ELSE One(Task(t.root, u.st))))

GuildPending(pc) == {t \in BagToSet(guild.tasks) : Head(t.stack).pc = pc}

GuildQuiet == guild.tasks = EmptyBag

GuildConnect == GuildStart("connect", GuildConnectEntry(GuildWorld))
GuildPlay(track) == GuildStart("play", GuildPlayEntry(GuildWorld, track))
GuildPause == GuildStart("pause", GuildPauseEntry(GuildWorld, guild.now))
GuildResume == GuildStart("resume", GuildResumeEntry(GuildWorld, guild.now))
GuildStop == GuildStart("stop", GuildStopEntry(GuildWorld))
GuildSeek(position) == GuildStart("seek", GuildSeekEntry(GuildWorld, position))

\* time.time() moves on by a second
GuildTick ==
    /\ guild.now < MaxClock
    /\ guild' = [guild EXCEPT !.now = @ + 1]
    /\ UNCHANGED <<player, vc, tasks, timers, players, cache, manager>>

\* the source of the voice client reaches its end
GuildSongEnds ==
    /\ guild.vc.state = "playing"
    /\ GuildCommit(VcStop(GuildWorld), guild.tasks)

\* the sleep of _auto_disconnect is over
GuildTimerFires ==
    /\ guild.p.disconnect_timer.state = "armed"
    /\ GuildCommit([GuildWorld EXCEPT !.p.disconnect_timer.state = "spent",
                                      !.ev = One(Task("timer", <<At("g_timer")>>))],
                   guild.tasks)

GuildSourceCreated ==
    \E t \in GuildPending("g_create"), ok \in BOOLEAN :
        GuildRun(t, GuildPlayAfterCreate(GuildWorld, Head(t.stack), ok, guild.now))

GuildSettingsLoaded ==
    \E t \in GuildPending("g_settings"), auto_disconnect \in BOOLEAN, delay \in Delays :
        GuildRun(t, GuildAfterSettings(GuildWorld, auto_disconnect, delay))

GuildConnectDone ==
    \E t \in GuildPending("g_connect_wait") : GuildRun(t, GuildConnectAfter(GuildWorld))

GuildDisconnectDone ==
    \E t \in GuildPending("g_disconnect_wait") :
        GuildRun(t, GuildDisconnectAfter(GuildWorld))

GuildTimerCallback ==
    \E t \in GuildPending("g_timer") : GuildRun(t, GuildAutoDisconnect(GuildWorld))

\* `after` runs on the audio thread, where asyncio.create_task has no
\* running loop: _playback_finished is either run or never scheduled
GuildAfterRuns ==
    \E t \in GuildPending("g_after") : GuildRun(t, GuildPlaybackFinished(GuildWorld))

GuildAfterLost ==
    \E t \in GuildPending("g_after") : GuildRun(t, Done(GuildWorld))

\* the task awaiting AudioSource.create is cancelled: CancelledError is no
\* Exception, so play()'s `except Exception` lets it pass
GuildCancelled ==
    \E t \in GuildPending("g_create") : GuildRun(t, Raise(GuildWorld))

GuildEvent(name, arg, A) ==
    /\ A
    /\ obs' = [cmd |-> name, arg |-> arg, status |-> guild.p.status,
               track |-> guild.p.current_track, played |-> guild.p.tracks_played]

GuildCmd(name, arg, A) == GuildQuiet /\ GuildEvent(name, arg, A)

NextGuild ==
    \/ GuildCmd("connect", 0, GuildConnect)
    \/ \E track \in Songs : GuildCmd("play", track, GuildPlay(track))
    \/ GuildCmd("pause", 0, GuildPause)
    \/ GuildCmd("resume", 0, GuildResume)
    \/ GuildCmd("stop", 0, GuildStop)
    \/ \E position \in SeekTargets : GuildCmd("seek", position, GuildSeek(position))
    \/ Step(GuildTick)
    \/ Step(GuildSongEnds)
    \/ Step(GuildTimerFires)
    \/ Step(GuildSourceCreated)
    \/ Step(GuildSettingsLoaded)
    \/ Step(GuildConnectDone)
    \/ Step(GuildDisconnectDone)
    \/ Step(GuildTimerCallback)
    \/ Step(GuildAfterRuns)
    \/ Step(GuildAfterLost)

SpecGuild == Init /\ [][NextGuild]_vars

\* ---- the GuildPlayer: tracks ending, completion callbacks, cancellation
NextGuildEnds ==
    \/ GuildCmd("connect", 0, GuildConnect)
    \/ \E track \in Songs : GuildCmd("play", track, GuildPlay(track))
    \/ GuildCmd("stop", 0, GuildStop)
    \/ \E position \in SeekTargets : GuildCmd("seek", position, GuildSeek(position))
    \/ GuildEvent("ends", 0, GuildSongEnds)
    \/ Step(GuildCancelled)
    \/ Step(GuildTimerFires)
    \/ Step(GuildSourceCreated)
    \/ Step(GuildSettingsLoaded)
    \/ Step(GuildConnectDone)
    \/ Step(GuildDisconnectDone)
    \/ Step(GuildTimerCallback)
    \/ Step(GuildAfterRuns)
    \/ Step(GuildAfterLost)

SpecGuildEnds == Init /\ [][NextGuildEnds]_vars

\* ---- sources that fail to open
\* a command issued once the previous one and its callbacks are through;
\* what happens to the sources it asks for is recorded as it goes
Attempt(name, A) ==
    /\ Quiet
    /\ A
    /\ obs' = [cmd |-> name, p |-> Observed(player), opened |-> FALSE,
               failed |-> FALSE]

\* _get_audio_source() raises in the task t
SourceFails(t) ==
    /\ t \in Pending("play_get_source")
    /\ Run(t, PlayAfterSource(World, Head(t.stack), FALSE))

\* _get_audio_source() returns a source in the task t
SourceOpens(t) ==
    /\ t \in Pending("play_get_source")
    /\ Run(t, PlayAfterSource(World, Head(t.stack), TRUE))

PlaySourceFails ==
    \E t \in BagToSet(tasks) :
        /\ SourceFails(t)
        /\ obs' = IF t.root = "play" THEN [obs EXCEPT !.failed = TRUE] ELSE obs

PlaySourceOpens ==
    \E t \in BagToSet(tasks) :
        /\ SourceOpens(t)
        /\ obs' = [obs EXCEPT !.opened = TRUE]

\* the steps the event loop takes on its own
Continue ==
    \/ PlaySourceFails
    \/ PlaySourceOpens
    \/ Step(PlaySleepDone)
    \/ \E d \in Delays : Step(ForwardSettingsLoaded(d))
    \/ Step(ConnectSettingsLoaded)
    \/ Step(ConnectDone)
    \/ Step(SongFinished)

NextFail ==
    \/ \E song \in Songs : Attempt("add", Add(song, FALSE))
    \/ Attempt("connect", Connect)
    \/ Attempt("play", Play)
    \/ Attempt("pause", Pause)
    \/ \E skip \in SkipCounts : Attempt("forward", Forward(skip))
    \/ Step(SongEnds)
    \/ Continue

SpecFail == Init /\ [][NextFail]_vars /\ WF_vars(Continue)

\* ---- players of several guilds asking for the same url
NextCache ==
    \/ \E g \in Guilds : Step(GetPlayer(g))
    \/ \E g \in Guilds : GetAudioSource(g)
    \/ \E g \in Guilds : CacheSongStarts(g)
    \/ \E g \in Guilds : FfmpegOpens(g)
    \/ \E g \in Guilds, returncode \in {0, 1} : FfmpegExits(g, returncode)
    \/ \E g \in Guilds : CacheFileDone(g)

SpecCache == Init /\ [][NextCache]_vars

\* ---- the registry of GuildPlayers
NextRegistry ==
    \/ \E g \in Guilds, found \in BOOLEAN : ManagerGet(g, found)
    \/ \E g \in Guilds : ManagerGetExisting(g)
    \/ \E g \in Guilds : ManagerRemove(g)
    \/ \E r \in manager.removing : ManagerRemoveDone(r)

SpecRegistry == Init /\ [][NextRegistry]_vars

\* ---- the background cleanup of inactive GuildPlayers
NextSweep ==
    \/ \E g \in Guilds : ManagerGet(g, TRUE)
    \/ \E g \in Guilds, status \in GuildStatuses : StatusChanges(g, status)
    \/ \E g \in Guilds, idle \in IdleTimes : IdleChanges(g, idle)
    \/ SweepStarts
    \/ \E g \in Guilds : SweepRemoves(g)
    \/ \E r \in manager.removing : ManagerRemoveDone(r)

SpecSweep == Init /\ [][NextSweep]_vars

\* ---- one player asking for sources of every kind, and the fills this
\* schedules
NextFill ==
    \/ \E hls \in BOOLEAN, seeking \in BOOLEAN, seek_position \in 0..1,
          is_live \in BOOLEAN, duration \in Durations, cache_opens \in BOOLEAN :
          OpenSource(Home, hls, seeking, seek_position, is_live, duration, cache_opens)
    \/ CacheSongStarts(Home)
    \/ FfmpegOpens(Home)
    \/ \E returncode \in {0, 1} : FfmpegExits(Home, returncode)
    \/ CacheFileDone(Home)

SpecFill == Init /\ [][NextFill]_vars

\* ---- auto-disconnect timers of both players; each player is exercised
\* while the other one is still as constructed
PlayerUntouched ==
    /\ player = InitPlayer
    /\ vc = NoVoice
    /\ tasks = EmptyBag
    /\ timers = 0

GuildUntouched == guild = InitGuild

NextTimerPlayer ==
    \/ \E song \in Songs : Plain(Add(song, FALSE))
    \/ Plain(Connect)
    \/ Plain(Play)
    \/ Plain(Pause)
    \/ \E skip \in SkipCounts : Plain(Forward(skip))
    \/ Step(SongEnds)
    \/ Step(TimerFires)
    \/ Step(OldTimerFires)
    \/ Step(PlaySourceLoaded)
    \/ Step(PlaySleepDone)
    \/ \E delay \in Delays : Step(ForwardSettingsLoaded(delay))
    \/ Step(DisconnectDone)
    \/ Step(ConnectSettingsLoaded)
    \/ Step(ConnectDone)
    \/ Step(SongFinished)
    \/ Env("timer", TimerCallback)

NextTimerGuild ==
    \/ GuildCmd("connect", 0, GuildConnect)
    \/ \E track \in Songs : GuildCmd("play", track, GuildPlay(track))
    \/ GuildCmd("pause", 0, GuildPause)
    \/ GuildCmd("stop", 0, GuildStop)
    \/ Step(GuildSongEnds)
    \/ Step(GuildTimerFires)
    \/ Step(GuildSourceCreated)
    \/ Step(GuildSettingsLoaded)
    \/ Step(GuildConnectDone)
    \/ Step(GuildDisconnectDone)
    \/ GuildEvent("g_timer", 0, GuildTimerCallback)
    \/ Step(GuildAfterRuns)
    \/ Step(GuildAfterLost)

NextTimer ==
    \/ GuildUntouched /\ NextTimerPlayer
    \/ PlayerUntouched /\ NextTimerGuild
    \/ \E g \in Guilds : Step(GetPlayer(g))
    \/ \E g \in Guilds : Step(RemovePlayer(g))

SpecTimer == Init /\ [][NextTimer]_vars

\* ---- shutting the manager down: the player of the first guild in full,
\* the players of the other guilds by their registry entries
ShuttingDown == \E t \in BagToSet(guild.tasks) : t.root = "shutdown"

\* shutdown(): a remove() per registered guild, all started by gather()
ManagerShutdown ==
    LET r == GuildCleanupEntry(GuildWorld)
        ts == (guild.tasks (+) r.w.ev) (+) One(Task("shutdown", r.st))
    IN
    /\ manager.players[Home] # NoPlayer
    /\ ~ShuttingDown
    /\ manager.removing = {}
    /\ BagCardinality(ts) <= MaxTasks
    /\ guild' = [guild EXCEPT !.p = r.w.p, !.vc = r.w.vc, !.tasks = ts]
    /\ manager' = [manager EXCEPT !.removing =
                       {[guild |-> g, player |-> manager.players[g]] :
                            g \in {h \in Guilds \ {Home} : manager.players[h] # NoPlayer}}]
    /\ obs' = NoObs
    /\ UNCHANGED <<player, vc, tasks, timers, players, cache>>

\* cleanup() of the first guild's player ends with queue.clear(), and
\* remove() deletes the entry
ManagerCleanupDone ==
    \E t \in GuildPending("cleanup_clear") :
        /\ guild' = [guild EXCEPT !.p.queue = <<>>,
                                  !.tasks = (@ (-) One(t))
                                            (+) One(Task(t.root, <<At("gather")>>))]
        /\ manager' = [manager EXCEPT !.cleaned = @ \cup {manager.players[Home]},
                                      !.players[Home] = NoPlayer]
        /\ obs' = NoObs
        /\ UNCHANGED <<player, vc, tasks, timers, players, cache>>

\* gather() has every remove() back: shutdown() returns
ManagerShutdownReturns ==
    \E t \in GuildPending("gather") :
        /\ manager.removing = {}
        /\ guild' = [guild EXCEPT !.tasks = @ (-) One(t)]
        /\ obs' = [cmd |-> "shutdown", arg |-> 0]
        /\ UNCHANGED <<player, vc, tasks, timers, players, cache, manager>>

\* nothing is followed once shutdown() has returned
Running(A) == obs.cmd # "shutdown" /\ A

\* a command in the guild of a registered player, while the manager is up
Registered(A) == manager.players[Home] # NoPlayer /\ ~ShuttingDown /\ Running(A)

NextShutdown ==
    \/ \E g \in Guilds : GuildQuiet /\ Running(ManagerGet(g, TRUE))
    \/ Registered(GuildCmd("connect", 0, GuildConnect))
    \/ \E track \in Songs : Registered(GuildCmd("play", track, GuildPlay(track)))
    \/ Registered(GuildCmd("pause", 0, GuildPause))
    \/ Registered(GuildCmd("stop", 0, GuildStop))
    \/ Running(ManagerShutdown)
    \/ Running(ManagerCleanupDone)
    \/ \E r \in manager.removing : ShuttingDown /\ Running(ManagerRemoveDone(r))
    \/ ManagerShutdownReturns
    \/ Running(Step(GuildSongEnds))
    \/ Running(Step(GuildTimerFires))
    \/ Running(Step(GuildSourceCreated))
    \/ Running(Step(GuildSettingsLoaded))
    \/ Running(Step(GuildConnectDone))
    \/ Running(Step(GuildDisconnectDone))
    \/ Running(Step(GuildTimerCallback))
    \/ Running(Step(GuildAfterRuns))
    \/ Running(Step(GuildAfterLost))

SpecShutdown == Init /\ [][NextShutdown]_vars

\* ---- the volume: set_volume() at any moment of a player that connects,
\* plays and pauses; each player is exercised with the other one untouched
PlayerSetVolume(level) ==
    /\ Commit(SetVolume(World, level), tasks)
    /\ obs' = [cmd |-> "volume", arg |-> level,
               before |-> [p |-> player, vc |-> vc, tasks |-> tasks, timers |-> timers]]

GuildSetVolume(level) ==
    /\ GuildCommit(SetVolume(GuildWorld, level), guild.tasks)
    /\ obs' = [cmd |-> "g_volume", arg |-> level, before |-> guild]

NextVolumePlayer ==
    \/ \E song \in Songs : Plain(Add(song, FALSE))
    \/ Plain(Connect)
    \/ Plain(Play)
    \/ Plain(Pause)
    \/ \E level \in Levels : PlayerSetVolume(level)
    \/ Free(SongEnds)
    \/ Free(PlaySourceLoaded)
    \/ Free(PlaySleepDone)
    \/ Free(ConnectSettingsLoaded)
    \/ Free(ConnectDone)
    \/ Free(SongFinished)

NextVolumeGuild ==
    \/ GuildQuiet /\ Free(GuildConnect)
    \/ \E track \in Songs : GuildQuiet /\ Free(GuildPlay(track))
    \/ GuildQuiet /\ Free(GuildPause)
    \/ \E level \in Levels : GuildSetVolume(level)
    \/ Free(GuildSongEnds)
    \/ Free(GuildSourceCreated)
    \/ Free(GuildSettingsLoaded)
    \/ Free(GuildConnectDone)
    \/ Free(GuildAfterRuns)
    \/ Free(GuildAfterLost)

NextVolume ==
    \/ GuildUntouched /\ NextVolumePlayer
    \/ PlayerUntouched /\ NextVolumeGuild

SpecVolume == Init /\ [][NextVolume]_vars

\* ---- the slash commands of the cogs: every handler starts with
\* `if not inter.author.voice`, which replies and returns before get_player()
\* is called and before the player is touched
\* the commands that went through so far
Issued == IF obs.cmd \in {"accepted", "rejected", "step"} THEN obs.n ELSE 0

Rejected(name, g) ==
    /\ UNCHANGED <<player, vc, tasks, timers, guild, players, cache, manager>>
    /\ obs' = [cmd |-> "rejected", n |-> Issued, guild |-> g,
               before |-> [p |-> player, vc |-> vc, tasks |-> tasks,
                           timers |-> timers, players |-> players]]

\* the caller is in a voice channel: the handler goes on with A
Accepted(A) ==
    /\ Quiet
    /\ Issued < MaxCommands
    /\ A
    /\ obs' = [cmd |-> "accepted", n |-> Issued + 1]

\* a coroutine in flight goes on
Then(A) == A /\ obs' = [cmd |-> "step", n |-> Issued]

\* a handler that goes on whether or not the caller is in a voice channel
HandlerUnchecked(name, g, in_voice, A) ==
    /\ Quiet
    /\ Issued < MaxCommands
    /\ A
    /\ obs' = IF in_voice THEN [cmd |-> "accepted", n |-> Issued + 1]
              ELSE [cmd |-> "rejected", n |-> Issued + 1, guild |-> g,
                    before |-> [p |-> player, vc |-> vc, tasks |-> tasks,
                                timers |-> timers, players |-> players]]

\* the handler of command name in guild g; A is what it does to the player
\* once the caller is found in a voice channel
Handler(name, g, in_voice, A) ==
    IF in_voice THEN Accepted(A) ELSE Rejected(name, g)

\* a handler that replies and leaves the player alone
Nothing == Commit(World, tasks)

\* /resume: connect when there is no voice client, else play()
ResumeCommand ==
    IF ~player.voice_client THEN Connect
    ELSE IF player.status = "PAUSED" \/ GetCurrent(player) # NoSong THEN Play
    ELSE Nothing

\* /volume: `if not player.get_current()` replies and returns
VolumeCommand(level) ==
    IF GetCurrent(player) = NoSong THEN Nothing
    ELSE Commit(SetVolume(World, level), tasks)

\* the level the /volume command is given
CommandLevels == {40}

\* /disconnect and /stop: `if not player.voice_client` replies and returns,
\* and /stop also unless the status is PLAYING
DisconnectCommand == IF player.voice_client THEN Disconnect ELSE Nothing

StopCommand ==
    IF player.voice_client /\ player.status = "PLAYING" THEN Stop ELSE Nothing

\* /shuffle: `if player.is_queue_empty()` replies and returns
ShuffleCommand == IF GetQueue(player) = <<>> THEN Nothing ELSE Shuffle

\* /fseek: forward_seek(seconds) is seek(position_in_seconds + seconds)
ForwardSeek(seconds) == Seek(player.position_in_seconds + seconds)

NextVoice ==
    \/ \E in_voice \in BOOLEAN :
           Handler("pause", Home, in_voice, Pause)
    \/ \E in_voice \in BOOLEAN :
           Handler("resume", Home, in_voice, ResumeCommand)
    \/ \E in_voice \in BOOLEAN :
           Handler("skip", Home, in_voice,
                   \E skip \in SkipCounts : Forward(skip))
    \/ \E in_voice \in BOOLEAN :
           Handler("unskip", Home, in_voice, Back)
    \/ \E in_voice \in BOOLEAN :
           Handler("seek", Home, in_voice,
                   \E position_seconds \in SeekTargets : Seek(position_seconds))
    \/ \E in_voice \in BOOLEAN :
           Handler("fseek", Home, in_voice,
                   \E seconds \in SkipCounts : ForwardSeek(seconds))
    \/ \E in_voice \in BOOLEAN :
           Handler("replay", Home, in_voice, Seek(0))
    \/ \E in_voice \in BOOLEAN :
           Handler("loop", Home, in_voice, Loop)
    \/ \E in_voice \in BOOLEAN :
           Handler("volume", Home, in_voice,
                   \E level \in CommandLevels : VolumeCommand(level))
    \/ \E in_voice \in BOOLEAN :
           Handler("disconnect", Home, in_voice, DisconnectCommand)
    \/ \E in_voice \in BOOLEAN :
           Handler("stop", Home, in_voice, StopCommand)
    \/ \E in_voice \in BOOLEAN :
           Handler("clear", Home, in_voice, Clear)
    \/ \E in_voice \in BOOLEAN :
           Handler("remove", Home, in_voice,
                   \E index \in 1..MaxQueue, amount \in 1..2 : RemoveFromQueue(index, amount))
    \/ \E in_voice \in BOOLEAN :
           Handler("move", Home, in_voice,
                   \E from_pos \in Positions, to_pos \in Positions : Move(from_pos, to_pos))
    \/ \E in_voice \in BOOLEAN :
           Handler("shuffle", Home, in_voice, ShuffleCommand)
    \/ \E in_voice \in BOOLEAN :
           Handler("loop-queue", Home, in_voice, LoopQueue)
    \/ \E in_voice \in BOOLEAN :
           Handler("play", Home, in_voice,
                   \E song \in Songs : Add(song, FALSE))
    \/ \E in_voice \in BOOLEAN, g \in Guilds \ {Home} :
           Handler("play", g, in_voice, GetPlayer(g))
    \/ Then(SongEnds)
    \/ Then(PlaySourceLoaded)
    \/ Then(PlaySleepDone)
    \/ Then(SeekSourceLoaded)
    \/ \E d \in Delays : Then(ForwardSettingsLoaded(d))
    \/ Then(DisconnectDone)
    \/ Then(ConnectSettingsLoaded)
    \/ Then(ConnectDone)
    \/ Then(SongFinished)
    \/ Then(AfterSeekRuns)
    \/ Then(AfterSeekLost)

SpecVoice == Init /\ [][NextVoice]_vars

\* ---- going back: back() between the commands of a player that plays,
\* pauses, skips and loops; raised is whether it ended in an exception
BackIssued ==
    LET r == BackEntry(World) IN
    /\ Quiet
    /\ Start("back", r)
    /\ obs' = [cmd |-> "back", arg |-> 0, raised |-> r.st = <<>> /\ ~r.ok,
               before |-> [p |-> player, vc |-> vc, tasks |-> tasks, timers |-> timers]]

NextBack ==
    \/ \E song \in Songs : Plain(Add(song, FALSE))
    \/ Plain(Connect)
    \/ Plain(Play)
    \/ Plain(Pause)
    \/ \E skip \in SkipCounts : Plain(Forward(skip))
    \/ Plain(Loop)
    \/ Plain(LoopQueue)
    \/ BackIssued
    \/ Free(Tick)
    \/ Free(SongEnds)
    \/ Free(PlaySourceLoaded)
    \/ Free(PlaySleepDone)
    \/ \E d \in Delays : Free(ForwardSettingsLoaded(d))
    \/ Free(ConnectSettingsLoaded)
    \/ Free(ConnectDone)
    \/ Free(SongFinished)

SpecBack == Init /\ [][NextBack]_vars

\* ---- the argument of seek(): recordings and a livestream in the queue,
\* positions from below zero to beyond the length; raised is whether seek()
\* ended in an exception before it stopped anything
SeekInputs == -1..MaxPos

SeekIssued(position_seconds) ==
    LET r == SeekEntry(World, position_seconds) IN
    /\ Quiet
    /\ Start("seek", r)
    /\ obs' = [cmd |-> "seek", arg |-> position_seconds,
               raised |-> r.st = <<>> /\ ~r.ok,
               before |-> [p |-> player, vc |-> vc, tasks |-> tasks, timers |-> timers]]

NextSeekInputs ==
    \/ \E song \in Songs \cup {LiveSong} : Plain(Add(song, FALSE))
    \/ Plain(Connect)
    \/ Plain(Play)
    \/ Plain(Pause)
    \/ \E position_seconds \in SeekInputs : SeekIssued(position_seconds)
    \/ Free(Tick)
    \/ Free(SongEnds)
    \/ Free(PlaySourceLoaded)
    \/ Free(PlaySleepDone)
    \/ Free(SeekSourceLoaded)
    \/ \E d \in Delays : Free(ForwardSettingsLoaded(d))
    \/ Free(ConnectSettingsLoaded)
    \/ Free(ConnectDone)
    \/ Free(SongFinished)
    \/ Free(AfterSeekRuns)
    \/ Free(AfterSeekLost)

SpecSeekInputs == Init /\ [][NextSeekInputs]_vars

\* ---- editing a queue of up to four tracks: the tracks are enqueued in
\* order, track k being the k-th one added, and then moved and removed;
\* start is the queue the edits began with, edits the calls made
Enqueue ==
    /\ obs.cmd = "none" \/ (obs.cmd = "edit" /\ obs.edits = <<>>)
    /\ Len(player.queue) < MaxEnqueued
    /\ player' = AddSong(player, Len(player.queue) + 1, FALSE)
    /\ obs' = [cmd |-> "edit", start |-> player'.queue, edits |-> <<>>]
    /\ UNCHANGED <<vc, tasks, timers, guild, players, cache, manager>>

Edit(name, a, b, q) ==
    /\ obs.cmd = "edit"
    /\ Len(obs.edits) < MaxEdits
    /\ player' = [player EXCEPT !.queue = q]
    /\ obs' = [obs EXCEPT !.edits = Append(@, <<name, a, b>>)]
    /\ UNCHANGED <<vc, tasks, timers, guild, players, cache, manager>>

MoveEdit(from_pos, to_pos) ==
    Edit("move", from_pos, to_pos,
         IF InBounds(player, from_pos, to_pos)
         THEN Moved(player, from_pos, to_pos) ELSE player.queue)

RemoveEdit(index, amount) ==
    Edit("remove", index, amount, Removed(player, index, amount))

NextEdit ==
    \/ Enqueue
    \/ \E from_pos \in 1..MaxEnqueued, to_pos \in 1..MaxEnqueued :
           MoveEdit(from_pos, to_pos)
    \/ \E index \in 1..MaxEnqueued, amount \in 1..2 : RemoveEdit(index, amount)

SpecEdit == Init /\ [][NextEdit]_vars

\* ---- the play command on a queue that drains: tracks are added by the
\* command alone, they end or are skipped, and no loop mode, back() or
\* seek() is used; every source loads
\* the handler from its player.add() on: connect and play when there is no
\* voice client, play when the player is IDLE
PlayCommandEntry(w, song) ==
    LET w1 == [w EXCEPT !.p = AddSong(@, song, FALSE)] IN
    IF ~w1.p.voice_client
    THEN Await(ConnectEntry(w1), At("command_connect"))
    ELSE IF w1.p.status = "IDLE" THEN PlayEntry(w1) ELSE Done(w1)

PlayCommand(song) ==
    /\ Quiet
    /\ Start("command", PlayCommandEntry(World, song))
    /\ obs' = [cmd |-> "command", song |-> song,
               before |-> [queue |-> player.queue, status |-> player.status]]

NextDrain ==
    \/ \E song \in Songs : PlayCommand(song)
    \/ Plain(Forward(1))
    \/ Free(SongEnds)
    \/ Free(SongFinished)
    \/ Step(PlaySourceLoaded)
    \/ Step(PlaySleepDone)
    \/ \E d \in Delays : Step(ForwardSettingsLoaded(d))
    \/ Step(ConnectSettingsLoaded)
    \/ Step(ConnectDone)
    \/ Free(TimerFires)
    \/ Free(OldTimerFires)
    \/ Free(TimerCallback)
    \/ Free(DisconnectDone)

SpecDrain == Init /\ [][NextDrain]_vars

\* ---- seek() and the callback of the source it stops: seek() issued
\* between commands, recorded with the player it found and, once its
\* source is there, with whether it went through; every source loads
SeekRecorded(position_seconds) ==
    /\ Quiet
    /\ Seek(position_seconds)
    /\ obs' = [cmd |-> "seek", arg |-> position_seconds, p |-> Observed(player),
               vc |-> vc.state, done |-> "no"]

\* voice_client.play(source) of seek() raises on a client that plays
SeekLoadsRecorded ==
    /\ SeekSourceLoaded
    /\ obs' = IF obs.cmd = "seek"
              THEN [obs EXCEPT !.done = IF VcCanPlay(World) THEN "ok" ELSE "raised"]
              ELSE obs

NextSeekStop ==
    \/ \E song \in Songs : Plain(Add(song, FALSE))
    \/ Plain(Connect)
    \/ Plain(Play)
    \/ \E position_seconds \in SeekTargets : SeekRecorded(position_seconds)
    \/ Free(SongEnds)
    \/ SeekLoadsRecorded
    \/ Step(Tick)
    \/ Step(SongFinished)
    \/ Step(AfterSeekRuns)
    \/ Step(AfterSeekLost)
    \/ Step(PlaySourceLoaded)
    \/ Step(PlaySleepDone)
    \/ \E d \in Delays : Step(ForwardSettingsLoaded(d))
    \/ Step(ConnectSettingsLoaded)
    \/ Step(ConnectDone)
    \/ Free(TimerFires)
    \/ Free(OldTimerFires)
    \/ Free(TimerCallback)
    \/ Free(DisconnectDone)

SpecSeekStop == Init /\ [][NextSeekStop]_vars

\* ---- play() and the timers armed before it: play() issued between
\* commands and recorded until something else happens
PlayRecorded ==
    /\ Quiet
    /\ Play
    /\ obs' = [cmd |-> "play", p |-> Observed(player)]

NextPlayTimers ==
    \/ \E song \in Songs : Plain(Add(song, FALSE))
    \/ Plain(Connect)
    \/ PlayRecorded
    \/ \E skip \in SkipCounts : Plain(Forward(skip))
    \/ Step(PlaySourceLoaded)
    \/ Step(PlaySleepDone)
    \/ Free(SongEnds)
    \/ Free(SongFinished)
    \/ \E delay \in Delays : Free(ForwardSettingsLoaded(delay))
    \/ Free(ConnectSettingsLoaded)
    \/ Free(ConnectDone)
    \/ Free(TimerFires)
    \/ Free(OldTimerFires)
    \/ Free(TimerCallback)
    \/ Free(DisconnectDone)

SpecPlayTimers == Init /\ [][NextPlayTimers]_vars

\* ---- status and voice client: commands one after the other, each with
\* the callbacks it provokes, and the bot's health check between them
\* one pass of health_check() over the player: a voice client that plays
\* makes the status PLAYING, one that does not makes a PLAYING status IDLE
HealthChecked(w) ==
    IF ~w.p.voice_client THEN w
    ELSE IF IsPlaying(w) /\ w.p.status # "PLAYING" THEN [w EXCEPT !.p.status = "PLAYING"]
    ELSE IF ~IsPlaying(w) /\ w.p.status = "PLAYING" THEN [w EXCEPT !.p.status = "IDLE"]
    ELSE w

HealthCheck == Commit(HealthChecked(World), tasks)

NextHealth ==
    \/ \E song \in Songs : Cmd("add", song, Add(song, FALSE))
    \/ Cmd("connect", 0, Connect)
    \/ Cmd("play", 0, Play)
    \/ Cmd("pause", 0, Pause)
    \/ \E position_seconds \in SeekTargets :
           Cmd("seek", position_seconds, Seek(position_seconds))
    \/ Step(PlaySourceLoaded)
    \/ Step(PlaySleepDone)
    \/ Step(SeekSourceLoaded)
    \/ Step(ConnectSettingsLoaded)
    \/ Step(ConnectDone)
    \/ Step(SongFinished)
    \/ Step(AfterSeekRuns)
    \/ Step(AfterSeekLost)
    \/ \E d \in Delays : Step(ForwardSettingsLoaded(d))
    \/ Free(HealthCheck)
    \/ Free(Tick)
    \/ Free(SongEnds)
    \/ Free(TimerFires)
    \/ Free(OldTimerFires)
    \/ Free(TimerCallback)
    \/ Free(DisconnectDone)

SpecHealth == Init /\ [][NextHealth]_vars

\* ---- the position a track starts at: play() recorded until something
\* else happens, on a player that plays, stops and lets its queue drain
\* while the position tracker counts
NextPosition ==
    \/ \E song \in Songs : Plain(Add(song, FALSE))
    \/ Plain(Connect)
    \/ PlayRecorded
    \/ Plain(Stop)
    \/ Step(PlaySourceLoaded)
    \/ Step(PlaySleepDone)
    \/ Free(Tick)
    \/ Free(SongEnds)
    \/ Free(SongFinished)
    \/ \E delay \in Delays : Free(ForwardSettingsLoaded(delay))
    \/ Free(ConnectSettingsLoaded)
    \/ Free(ConnectDone)
    \/ Free(DisconnectDone)
    \/ Free(TimerFires)
    \/ Free(OldTimerFires)
    \/ Free(TimerCallback)

SpecPosition == Init /\ [][NextPosition]_vars

\* ---- removals that overlap: remove() called by two callers and by the
\* cleanup pass, each whatever the others have in flight
Callers == {"first", "second"}

Removal(g, call) == [guild |-> g, player |-> manager.players[g], call |-> call]

\* remove() up to `await player.cleanup()`
RemoveCalled(g, call) ==
    /\ \A r \in manager.removing : r.call # call
    /\ manager' = IF manager.players[g] = NoPlayer THEN manager
                  ELSE [manager EXCEPT !.removing = @ \cup {Removal(g, call)}]
    /\ obs' = [cmd |-> "remove", arg |-> g, call |-> call, raised |-> FALSE,
               before |-> manager]
    /\ UNCHANGED <<player, vc, tasks, timers, guild, players, cache>>

\* cleanup() has returned: `del self.players[guild_id]` raises KeyError when
\* the entry is gone, and out of the cleanup pass with it
RemoveDeletes(r) ==
    LET gone == manager.players[r.guild] = NoPlayer IN
    /\ r \in manager.removing
    /\ manager' = [manager EXCEPT !.removing = @ \ {r},
                                  !.cleaned = @ \cup {r.player},
                                  !.players[r.guild] = NoPlayer,
                                  !.status[r.guild] = "idle",
                                  !.idle[r.guild] = 0,
                                  !.sweep = IF gone /\ r.call = "sweep" THEN {} ELSE @]
    /\ obs' = [cmd |-> "removed", arg |-> r.guild, call |-> r.call, raised |-> gone,
               before |-> manager]
    /\ UNCHANGED <<player, vc, tasks, timers, guild, players, cache>>

\* cleanup_inactive_players(): the first loop, building to_remove
PassStarts ==
    LET to_remove == {g \in Guilds : /\ manager.players[g] # NoPlayer
                                      /\ IsInactive(manager.status[g], manager.idle[g])}
    IN
    /\ manager.sweep = {}
    /\ to_remove # {}
    /\ \A r \in manager.removing : r.call # "sweep"
    /\ manager' = [manager EXCEPT !.sweep = to_remove]
    /\ obs' = NoObs
    /\ UNCHANGED <<player, vc, tasks, timers, guild, players, cache>>

\* the second loop: the next `await self.remove(guild_id)`
PassRemoves(g) ==
    /\ g \in manager.sweep
    /\ \A r \in manager.removing : r.call # "sweep"
    /\ manager' = IF manager.players[g] = NoPlayer
                  THEN [manager EXCEPT !.sweep = @ \ {g}]
                  ELSE [manager EXCEPT !.sweep = @ \ {g},
                                       !.removing = @ \cup {Removal(g, "sweep")}]
    /\ obs' = [cmd |-> "remove", arg |-> g, call |-> "sweep", raised |-> FALSE,
               before |-> manager]
    /\ UNCHANGED <<player, vc, tasks, timers, guild, players, cache>>

NextOverlap ==
    \/ \E g \in Guilds : ManagerGet(g, TRUE)
    \/ \E g \in Guilds, idle \in IdleTimes : IdleChanges(g, idle)
    \/ \E g \in Guilds, call \in Callers : RemoveCalled(g, call)
    \/ PassStarts
    \/ \E g \in Guilds : PassRemoves(g)
    \/ \E r \in manager.removing : RemoveDeletes(r)

SpecOverlap == Init /\ [][NextOverlap]_vars

\* ---- the queue of a player that is not connected: up to MaxEnqueued
\* tracks, each added once in any order (track 2 belongs to a playlist),
\* with the cursor moved by forward() and back(), which
\* raise in play() once the cursor is set; every call is recorded with the
\* queue and the cursor it found
Added == IF obs.cmd = "none" THEN {} ELSE obs.added

Op(name, a, b, raised, p) ==
    /\ player' = p
    /\ obs' = [cmd |-> name, a |-> a, b |-> b, raised |-> raised,
               before |-> [queue |-> player.queue,
                           queue_position |-> player.queue_position],
               added |-> IF name = "add" THEN Added \cup {a} ELSE Added]
    /\ UNCHANGED <<vc, tasks, timers, guild, players, cache, manager>>

OpAdd(song, immediate) ==
    /\ song \notin Added
    /\ Op("add", song, IF immediate THEN 1 ELSE 0, FALSE,
          AddSong(player, song, immediate))

OpForward(skip) ==
    LET r == ForwardEntry(World, skip) IN
    /\ r.st = <<>>
    /\ Op("forward", skip, 0, ~r.ok, r.w.p)

OpBack ==
    LET r == BackEntry(World) IN
    /\ r.st = <<>>
    /\ Op("back", 0, 0, ~r.ok, r.w.p)

OpMove(from_pos, to_pos) ==
    IF InBounds(player, from_pos, to_pos)
    THEN Op("move", from_pos, to_pos, FALSE,
            [player EXCEPT !.queue = Moved(player, from_pos, to_pos)])
    ELSE Op("move", from_pos, to_pos, TRUE, player)

OpClear == Op("clear", 0, 0, FALSE, Cleared(player))

OpShuffle ==
    \E f \in Shufflings(QueueSize(player)) :
        Op("shuffle", 0, 0, FALSE, [player EXCEPT !.queue = Shuffled(player, f)])

NextOps ==
    \/ \E song \in 1..MaxEnqueued, immediate \in BOOLEAN : OpAdd(song, immediate)
    \/ \E skip \in SkipCounts : OpForward(skip)
    \/ OpBack
    \/ \E from_pos \in -1..MaxEnqueued, to_pos \in -1..MaxEnqueued :
           OpMove(from_pos, to_pos)
    \/ OpClear
    \/ OpShuffle

SpecOps == Init /\ [][NextOps]_vars

\* ======================================================================
\* Properties
\* ======================================================================
CommandRoots == {"play", "forward", "back", "seek", "stop", "disconnect"}

\* a command handler has started and not yet returned
CommandInFlight == \E t \in BagToSet(tasks) : t.root \in CommandRoots

\* the last command was forward(n) with the cursor staying inside the queue
SkippedInside ==
    /\ obs.cmd = "forward"
    /\ obs.p.queue_position + obs.arg < Len(obs.p.queue)

\* the last command was forward(n) with n reaching past the last track
SkippedPastEnd ==
    /\ obs.cmd = "forward"
    /\ obs.p.queue_position + obs.arg >= Len(obs.p.queue)

\* the last event was the natural end of the last track, nothing looping
LastTrackEnded ==
    /\ obs.cmd = "ends"
    /\ obs.p.status = "PLAYING"
    /\ ~obs.p.loop_current_song /\ ~obs.p.loop_current_queue
    /\ obs.p.queue_position + 1 >= Len(obs.p.queue)

\* forward(), called as a command, returns from its end-of-queue branch
\* having read disconnect_delay from the settings
ForwardPastEndReturns(disconnect_delay) ==
    /\ SkippedPastEnd
    /\ obs.p.voice_client
    /\ \E t \in Pending("forward_settings") :
           /\ t.root = "forward"
           /\ Run(t, ForwardAfterSettings(World, disconnect_delay))

\* ---------------------------------------------------------------------
\* C2: _handle_song_finished never runs while a command handler (play,
\* forward, back, seek, stop, disconnect) has started and not yet finished
HandlerOnlyBetweenCommands == [][SongFinished => ~CommandInFlight]_vars

\* ---------------------------------------------------------------------
\* C3: forward(n) issued while PLAYING with queue_position + n < len(queue):
\* once the command and the completion callbacks it triggered are handled,
\* queue_position is its old value plus n and that track is the one playing
ForwardAdvancesExactly ==
    (SkippedInside /\ obs.p.status = "PLAYING" /\ Quiet) =>
        /\ player.queue_position = obs.p.queue_position + obs.arg
        /\ player.status = "PLAYING"
        /\ vc.state = "playing"
        /\ vc.song = GetCurrent(player)

\* ---------------------------------------------------------------------
\* C4: under add, forward, back, clear, shuffle, move, remove_from_queue
\* (position >= 1) and stop the cursor satisfies
\* 0 <= queue_position <= len(queue), and it is 0 whenever the queue is empty
CursorInBounds ==
    /\ 0 <= player.queue_position
    /\ player.queue_position <= Len(player.queue)
    /\ (player.queue = <<>> => player.queue_position = 0)

\* the cursor has moved to the last track of a full queue
CursorInBoundsWitness ==
    /\ Quiet
    /\ Len(player.queue) = MaxQueue
    /\ player.queue_position = MaxQueue - 1
    /\ player.status = "PLAYING"

\* ---------------------------------------------------------------------
\* C6 as stated: forward(n) reaching past the end on a connected player
\* ends with status IDLE and a timer armed with the configured delay,
\* whatever that delay is
ForwardPastEndArmsTimer ==
    [][\A d \in Delays :
          ForwardPastEndReturns(d) =>
              /\ player'.status = "IDLE"
              /\ player'.disconnect_timer = [state |-> "armed", delay |-> d]]_vars

\* C6: forward(n) reaching past the end on a connected player ends with
\* status IDLE; a positive configured delay arms a timer with that delay, a
\* delay of 0 leaves the timer handle as it was
ForwardPastEndArmsPositiveDelay ==
    [][\A d \in Delays :
          ForwardPastEndReturns(d) =>
              /\ player'.status = "IDLE"
              /\ d > 0 => player'.disconnect_timer = [state |-> "armed", delay |-> d]
              /\ d = 0 => player'.disconnect_timer = player.disconnect_timer]_vars

\* forward(2) on a one-track queue has returned with the timer armed
ForwardPastEndWitness ==
    /\ SkippedPastEnd /\ obs.p.voice_client /\ obs.p.status = "PLAYING"
    /\ Quiet
    /\ player.status = "IDLE"
    /\ player.disconnect_timer.state = "armed"
    /\ player.disconnect_timer.delay > 0

\* ---------------------------------------------------------------------
\* C7: after advancing past the end of the queue (forward(n) with
\* queue_position + n >= len(queue), or the natural end of the last track
\* without looping) get_current() is none and get_queue() is empty, the
\* queued tracks being left intact
PastEndNoCurrent ==
    ((SkippedPastEnd \/ LastTrackEnded) /\ Quiet) =>
        /\ GetCurrent(player) = NoSong
        /\ GetQueue(player) = <<>>
        /\ player.queue = obs.p.queue

\* ---------------------------------------------------------------------
\* C5: loop_current_song and loop_current_queue are never both true, so
\* that enabling one through its command leaves the other cleared
LoopFlagsExclusive == ~(player.loop_current_song /\ player.loop_current_queue)

\* /loop issued with the queue loop on has switched to the song loop
LoopFlagsWitness ==
    /\ obs.cmd = "loop"
    /\ obs.p.loop_current_queue /\ ~obs.p.loop_current_song
    /\ player.loop_current_song /\ ~player.loop_current_queue

\* ---------------------------------------------------------------------
\* seek(), called as a command, plays the new source and returns
SeekReturns ==
    /\ obs.cmd = "seek"
    /\ VcCanPlay(World)
    /\ \E t \in Pending("seek_get_source") :
           /\ t.root = "seek"
           /\ Run(t, SeekAfterSource(World, Head(t.stack), TRUE))

\* the last command was a seek issued while PAUSED, and it succeeded
SoughtWhilePaused ==
    /\ obs.cmd = "seek"
    /\ obs.p.status = "PAUSED"
    /\ Quiet
    /\ vc.after = "seek"

\* C8: a successful seek returns with the status it was issued in: PAUSED
\* stays PAUSED, PLAYING stays PLAYING
SeekPreservesStatus == [][SeekReturns => player'.status = obs.p.status]_vars

\* a seek issued while PAUSED has returned and the player is PAUSED
SeekPreservesStatusWitness ==
    /\ SoughtWhilePaused
    /\ vc.state = "playing"
    /\ player.status = "PAUSED"
    /\ player.position_in_seconds = obs.arg

\* ---------------------------------------------------------------------
\* C9: while the status is PAUSED the position does not change: after play,
\* pause, seek(t) it stays at t for as long as the player remains PAUSED
PausedPositionFrozen ==
    (SoughtWhilePaused /\ player.status = "PAUSED") =>
        player.position_in_seconds = obs.arg

\* ---------------------------------------------------------------------
\* two overlapping commands and all their callbacks have been handled
RaceOver == obs.cmd = "race" /\ obs.n = 2 /\ Quiet

\* C1: two commands issued concurrently are totally ordered: the final
\* state (queue, queue_position, status, loop flags) is one that running the
\* same two commands one after the other, in one order or the other, produces
CommandsSerializable ==
    RaceOver =>
        FinalState(player) \in
            {FinalState(s.p) : s \in Serial(obs.s, obs.first, obs.second)
                                     \cup Serial(obs.s, obs.second, obs.first)}

\* ---------------------------------------------------------------------
\* GuildPlayer.seek(), issued on a playing track, starts the new source and
\* returns
GuildSeekReturns ==
    /\ obs.cmd = "seek"
    /\ obs.status = "playing"
    /\ VcCanPlay(GuildWorld)
    /\ \E t \in GuildPending("g_create") :
           /\ t.root = "seek"
           /\ GuildRun(t, GuildPlayAfterCreate(GuildWorld, Head(t.stack), TRUE, guild.now))

\* C10: in GuildPlayer, seek(t) on a playing track followed by
\* get_position() yields t, within one second
GuildSeekThenPosition ==
    [][GuildSeekReturns =>
          /\ GuildGetPosition(guild'.p, guild'.now) <= obs.arg + 1
          /\ GuildGetPosition(guild'.p, guild'.now) >= obs.arg - 1]_vars

\* ---------------------------------------------------------------------
\* the last event was the natural end of a track with loop_current_song set
LoopedTrackEnded ==
    /\ obs.cmd = "ends"
    /\ obs.p.status = "PLAYING"
    /\ obs.p.loop_current_song

\* _handle_song_finished, run for that end, returns from seek(0)
LoopedTrackRestarted ==
    /\ LoopedTrackEnded
    /\ VcCanPlay(World)
    /\ \E t \in Pending("seek_get_source") :
           /\ t.root = "finished"
           /\ Run(t, SeekAfterSource(World, Head(t.stack), TRUE))

\* C11: a track that ends naturally while PLAYING with loop_current_song set
\* is restarted: once the end is handled the same track is playing, queue
\* and queue_position are unchanged and status is PLAYING; the restart sets
\* the logical position to 0
LoopedTrackRestarts ==
    /\ [](LoopedTrackEnded /\ Quiet =>
              /\ player.queue = obs.p.queue
              /\ player.queue_position = obs.p.queue_position
              /\ player.status = "PLAYING"
              /\ vc.state = "playing"
              /\ vc.song = GetCurrent(player))
    /\ [][LoopedTrackRestarted => player'.position_in_seconds = 0]_vars

\* ---------------------------------------------------------------------
\* the last event was the natural end of a track with loop_current_queue
\* set and loop_current_song clear
QueueLoopTrackEnded ==
    /\ obs.cmd = "ends"
    /\ obs.p.status = "PLAYING"
    /\ obs.p.loop_current_queue
    /\ ~obs.p.loop_current_song

\* C13: a track that ends naturally while PLAYING with loop_current_queue
\* set and loop_current_song clear is appended as the last element of the
\* queue and the cursor advances by exactly 1, the player staying PLAYING
LoopedQueueAdvances ==
    (QueueLoopTrackEnded /\ Quiet) =>
        /\ player.queue = Append(obs.p.queue, GetCurrent(obs.p))
        /\ player.queue_position = obs.p.queue_position + 1
        /\ player.status = "PLAYING"
        /\ vc.state = "playing"
        /\ vc.song = GetCurrent(player)

\* ---------------------------------------------------------------------
\* C12: GuildPlayer.tracks_played counts real completions: once the natural
\* end of a track is handled it is one more than before, and once a play,
\* seek or stop command and the completion callbacks it caused are handled
\* it is what it was
GuildCountsCompletions ==
    GuildQuiet =>
        /\ obs.cmd = "ends" => guild.p.tracks_played = obs.played + 1
        /\ obs.cmd \in {"play", "seek", "stop"} => guild.p.tracks_played = obs.played

\* ---------------------------------------------------------------------
\* C19: GuildPlayer is never left in LOADING: with no coroutine of the
\* player in flight (play() has returned, failed or been cancelled) the
\* status is IDLE, PLAYING or PAUSED
GuildNeverLeftLoading == GuildQuiet => guild.p.status # "loading"

\* ---------------------------------------------------------------------
\* the step in which the command `name` returns to its caller
Returns(name) ==
    /\ obs'.cmd = name
    /\ \A t \in BagToSet(tasks') : t.root # name
    /\ obs' # obs \/ \E t \in BagToSet(tasks) : t.root = name

\* the last command was stop() on a connected player
StopIssued == obs.cmd = "stop" /\ obs.p.voice_client /\ Quiet

\* stop() has done its work
Stopped ==
    /\ player.status = "IDLE"
    /\ player.queue = <<>>
    /\ player.queue_position = 0
    /\ ~player.voice_client
    /\ vc.state = "closed"

\* C14 as stated: stop() on a connected player whose status is PLAYING or
\* PAUSED ends with status IDLE, an empty queue with cursor 0 and the voice
\* connection released
StopFromPlayingOrPaused ==
    (StopIssued /\ obs.p.status \in {"PLAYING", "PAUSED"}) => Stopped

\* C14: stop() on a connected player whose status is PLAYING ends with
\* status IDLE, an empty queue with cursor 0 and the voice connection
\* released; on a PAUSED player it raises and changes nothing
StopFromPlayingOnly ==
    /\ (StopIssued /\ obs.p.status = "PLAYING") => Stopped
    /\ (StopIssued /\ obs.p.status = "PAUSED") =>
           /\ Observed(player) = obs.p
           /\ vc.state = obs.vc

\* stop() was issued with a track playing and has emptied a queue
StopWitness ==
    /\ StopIssued
    /\ obs.p.status = "PLAYING"
    /\ obs.p.queue # <<>>
    /\ obs.vc = "playing"
    /\ Stopped

\* ---------------------------------------------------------------------
\* play() issued on a PAUSED player whose voice client holds no paused
\* source (it was reconnected)
ResumeIssued ==
    /\ obs'.p.status = "PAUSED"
    /\ obs'.p.voice_client
    /\ obs'.vc = "idle"

\* play() has brought the player back to PLAYING where it was
Resumed ==
    /\ player'.status = "PLAYING"
    /\ player'.queue = obs'.p.queue
    /\ player'.queue_position = obs'.p.queue_position
    /\ player'.position_in_seconds = obs'.arg
    /\ vc'.state = "playing"
    /\ vc'.song = GetCurrent(player')

\* C15: disconnect() releases the voice connection and leaves queue,
\* queue_position and position_in_seconds unchanged, also once the
\* completion callback it caused is handled; a later connect and play
\* continues the same track from the preserved position
DisconnectPreserves ==
    /\ [](obs.cmd = "disconnect" =>
              /\ player.queue = obs.p.queue
              /\ player.queue_position = obs.p.queue_position
              /\ player.position_in_seconds = obs.arg
              /\ Quiet => ~player.voice_client /\ vc.state = "closed")
    /\ [][Returns("play") /\ ResumeIssued => Resumed]_vars

\* ---------------------------------------------------------------------
\* C16: pause() from PLAYING gives PAUSED, and the play() that follows
\* returns to PLAYING with the same queue and cursor and the logical
\* position it had at the pause
PauseThenPlay ==
    [][/\ Returns("pause") /\ obs'.p.status = "PLAYING" =>
              /\ player'.status = "PAUSED"
              /\ player'.queue = obs'.p.queue
              /\ player'.queue_position = obs'.p.queue_position
              /\ player'.position_in_seconds = obs'.arg
       /\ Returns("play") /\ obs'.after = "pause" => Resumed]_vars

\* ---------------------------------------------------------------------
\* C17: an auto-disconnect timer that fires while the status is PLAYING or
\* PAUSED leaves the player and its voice connection as they are, one that
\* fires while the player is IDLE (and, for the GuildPlayer, its queue is
\* empty) closes the connection, and the player stays in the registry
TimerReleasesOnlyWhenIdle ==
    /\ [](Home \in players)
    /\ [][/\ TimerCallback \/ GuildTimerCallback => players' = players
          /\ TimerCallback /\ player.status # "IDLE" =>
                 player' = player /\ vc' = vc
          /\ TimerCallback /\ player.status = "IDLE" /\ player.voice_client =>
                 vc'.state = "closed"
          /\ GuildTimerCallback /\ guild.p.status # "idle" =>
                 guild'.p = guild.p /\ guild'.vc = guild.vc
          /\ (/\ GuildTimerCallback
              /\ guild.p.status = "idle"
              /\ QueueIsEmpty(guild.p.queue)
              /\ guild.p.voice_client) =>
                 guild'.vc.state = "closed"]_vars

\* a timer has fired on a paused player, which is still connected
TimerWitness ==
    /\ obs.cmd = "timer"
    /\ obs.p.status = "PAUSED"
    /\ obs.p.voice_client
    /\ player.voice_client
    /\ vc.state = "paused"
    /\ Home \in players


\* ---------------------------------------------------------------------
\* play() is in flight
PlayInFlight == \E t \in BagToSet(tasks) : t.root = "play"

\* the source asked for by play() fails to open
PlayOpenFailed == \E t \in BagToSet(tasks) : t.root = "play" /\ SourceFails(t)

\* C18: when the source fails to open play() moves the cursor on by one
\* track and raises; it returns for any queue, with status IDLE when no
\* source was opened, and the player stays connected with its queue
PlayFailureSkips ==
    /\ [][/\ PlayOpenFailed =>
                 player'.queue_position =
                     IF player.queue_position + 1 < Len(player.queue)
                     THEN player.queue_position + 1 ELSE player.queue_position
          /\ Returns("play") /\ obs'.failed /\ ~obs'.opened =>
                 /\ player'.status = "IDLE"
                 /\ player'.voice_client
                 /\ player'.queue = obs'.p.queue]_vars
    /\ (obs.cmd = "play" ~> ~PlayInFlight)

\* ---------------------------------------------------------------------
\* the guilds whose _cache_song run is writing the temp file
Downloading == {g \in Guilds : cache.job[g] = "communicate"}

\* C20: of the players that start the same uncached url at most one runs a
\* download writing the temp file, and the key is committed at most once
SingleFlight ==
    /\ Cardinality(Downloading) <= 1
    /\ cache.commits <= 1

\* ---------------------------------------------------------------------
\* C21: the file at the committed cache path is either absent or the
\* complete output of one download that finished successfully
CommittedFileIsWhole == cache.final => cache.whole

\* ---------------------------------------------------------------------
\* C22: a fill is scheduled exactly when the origin is streamed, the seek
\* offset is zero, the track is not live and it lasts at most 30 minutes
FillScheduledExactly ==
    obs.cmd = "source" =>
        (obs.fill <=> /\ ~obs.hit
                      /\ obs.seek_position = 0
                      /\ ~obs.is_live
                      /\ obs.duration <= CacheMaxSeconds)

\* ---------------------------------------------------------------------
\* C23: no GuildPlayer is registered for two guilds; get() creates a player
\* only on a miss and otherwise returns the registered one; get_existing()
\* changes nothing; once remove() is through the guild has no entry and
\* the cleanup of the removed player has run
RegistryOnePlayerPerGuild ==
    /\ \A g \in Guilds, h \in Guilds :
           g # h /\ manager.players[g] # NoPlayer =>
               manager.players[g] # manager.players[h]
    /\ obs.cmd = "get" =>
           IF obs.before.players[obs.arg] # NoPlayer
           THEN obs.result = obs.before.players[obs.arg] /\ manager = obs.before
           ELSE /\ obs.result = manager.players[obs.arg]
                /\ obs.result # NoPlayer => obs.result > obs.before.created
                /\ \A g \in Guilds \ {obs.arg} :
                       manager.players[g] = obs.before.players[g]
    /\ obs.cmd = "get_existing" =>
           obs.result = obs.before.players[obs.arg] /\ manager = obs.before
    /\ obs.cmd = "removed" =>
           /\ manager.players[obs.arg] = NoPlayer
           /\ obs.before.players[obs.arg] = obs.result
           /\ obs.result \in manager.cleaned
           /\ \A g \in Guilds \ {obs.arg} :
                  manager.players[g] = obs.before.players[g]

\* a guild whose player was removed has been given a new one
RegistryWitness ==
    /\ obs.cmd = "get"
    /\ obs.before.players[obs.arg] = NoPlayer
    /\ obs.before.cleaned # {}
    /\ obs.result # NoPlayer
    /\ \E g \in Guilds \ {obs.arg} : manager.players[g] # NoPlayer

\* ---------------------------------------------------------------------
\* C24: the background cleanup picks exactly the players that are IDLE and
\* whose last activity is older than the threshold, and the players it
\* removes are IDLE with old activity
SweepRemovesIdleOnly ==
    /\ obs.cmd = "sweep" =>
           obs.result = {g \in Guilds : /\ obs.before.players[g] # NoPlayer
                                         /\ obs.before.status[g] = "idle"
                                         /\ obs.before.idle[g] > InactiveSeconds}
    /\ obs.cmd = "evict" /\ obs.result # NoPlayer =>
           /\ obs.before.status[obs.arg] = "idle"
           /\ obs.before.idle[obs.arg] > InactiveSeconds

\* ---------------------------------------------------------------------
\* C25: when shutdown() returns, no guild has a player in the registry,
\* and the player that was registered has no voice connection, nothing
\* playing, status idle and no auto-disconnect timer armed.
ShutdownReleasesAll ==
    obs.cmd = "shutdown" =>
        /\ \A g \in Guilds : manager.players[g] = NoPlayer
        /\ ~guild.p.voice_client
        /\ guild.vc.state = "closed"
        /\ guild.p.status = "idle"
        /\ guild.p.disconnect_timer.state # "armed"

\* ---------------------------------------------------------------------
\* C27: set_volume(level) stores max(0, min(100, level)) for every level,
\* so the stored volume is within 0..100; a source that is playing or
\* paused gets the new ratio and goes on, and status, queue, cursor,
\* position, the tasks in flight and the timers are as before.
VolumeClamped ==
    /\ player.volume \in {NoVolume} \cup 0..100
    /\ guild.p.volume \in 0..100
    /\ obs.cmd = "volume" =>
           /\ player = [obs.before.p EXCEPT !.volume = Clamp(obs.arg)]
           /\ vc = IF obs.before.p.voice_client
                       /\ obs.before.vc.state \in {"playing", "paused"}
                    THEN [obs.before.vc EXCEPT !.volume = Clamp(obs.arg)]
                    ELSE obs.before.vc
           /\ tasks = obs.before.tasks
           /\ timers = obs.before.timers
    /\ obs.cmd = "g_volume" =>
           guild = [obs.before EXCEPT
                        !.p.volume = Clamp(obs.arg),
                        !.vc.volume = IF obs.before.p.voice_client
                                         /\ obs.before.vc.state \in {"playing", "paused"}
                                      THEN Clamp(obs.arg) ELSE @]

\* a level above 100 given while a source plays at another ratio
VolumeWitness ==
    /\ obs.cmd = "volume"
    /\ obs.arg > 100
    /\ obs.before.vc.state = "playing"
    /\ obs.before.vc.volume = 40
    /\ vc.state = "playing"
    /\ vc.volume = 100

\* ---------------------------------------------------------------------
\* C26: a command issued by a caller who is in no voice channel is
\* rejected with the player of the guild (its fields, its voice client,
\* its coroutines in flight and its timers) and the registry of players
\* the same as before the command.
RejectedChangesNothing ==
    obs.cmd = "rejected" =>
        /\ player = obs.before.p
        /\ vc = obs.before.vc
        /\ tasks = obs.before.tasks
        /\ timers = obs.before.timers
        /\ players = obs.before.players

\* a command rejected while a track plays and another one waits
RejectedWitness ==
    /\ obs.cmd = "rejected"
    /\ obs.guild = Home
    /\ player.status = "PLAYING"
    /\ vc.state = "playing"
    /\ GetQueue(player) # <<>>

\* a command rejected in a guild that has no player
RejectedUnregistered ==
    /\ obs.cmd = "rejected"
    /\ obs.guild \notin players

\* ---------------------------------------------------------------------
\* C28: back() with queue_position = 0 raises, and the queue, the cursor,
\* the status, the loop flags and the position (every field of the
\* player, the voice client, the tasks in flight and the timers) are as
\* before.
BackAtStartFails ==
    obs.cmd = "back" /\ obs.before.p.queue_position = 0 =>
        /\ obs.raised
        /\ player = obs.before.p
        /\ vc = obs.before.vc
        /\ tasks = obs.before.tasks
        /\ timers = obs.before.timers

\* back() on the first of two tracks while it plays, looped, one second in
BackAtStartWitness ==
    /\ obs.cmd = "back"
    /\ obs.raised
    /\ player.queue_position = 0
    /\ Len(player.queue) = 2
    /\ player.status = "PLAYING"
    /\ player.loop_current_song
    /\ player.position_in_seconds = 1
    /\ vc.state = "playing"

\* ---------------------------------------------------------------------
\* C29: seek(position) goes ahead only if there is a current track, it is
\* no livestream and 0 <= position <= its length; otherwise it raises and
\* the player, the voice client, the tasks in flight and the timers are
\* as before.
SeekValidated ==
    obs.cmd = "seek" =>
        LET current_song == GetCurrent(obs.before.p)
            valid == /\ current_song # NoSong
                     /\ ~IsLive(current_song)
                     /\ 0 <= obs.arg
                     /\ obs.arg <= Length(current_song)
        IN /\ ~obs.raised => valid
           /\ ~valid => /\ obs.raised
                        /\ player = obs.before.p
                        /\ vc = obs.before.vc
                        /\ tasks = obs.before.tasks
                        /\ timers = obs.before.timers

\* ---------------------------------------------------------------------
\* the example: A, B, C, D enqueued (tracks 1 to 4, the first one current),
\* then move(from=3, to=1) and remove(position=2, range=1)
ExampleRun ==
    /\ obs.cmd = "edit"
    /\ obs.start = <<1, 2, 3, 4>>
    /\ obs.edits = << <<"move", 3, 1>>, <<"remove", 2, 1>> >>

\* C30 as stated: the example leaves upcoming = [D, B] with A current.
ExampleLeavesDB ==
    ExampleRun => GetQueue(player) = <<4, 2>> /\ GetCurrent(player) = 1

\* C30: the example leaves upcoming = [D, C] with A current: the move
\* gives [D, B, C], and position 2 of it, counted from 1, is B.
ExampleLeavesDC ==
    /\ ExampleRun => GetQueue(player) = <<4, 3>> /\ GetCurrent(player) = 1
    /\ obs.cmd = "edit" /\ obs.start = <<1, 2, 3, 4>>
       /\ obs.edits = << <<"move", 3, 1>> >> => GetQueue(player) = <<4, 2, 3>>

\* the example has run
ExampleWitness ==
    /\ ExampleRun
    /\ player.queue = <<1, 4, 3>>
    /\ player.queue_position = 0

\* ---------------------------------------------------------------------
\* the list q without its i-th element, and the elements of q as a bag
Without(q, i) == Take(q, i - 1) \o Drop(q, i)
Tracks(q) == [x \in {q[i] : i \in 1..Len(q)} |-> Cardinality({i \in 1..Len(q) : q[i] = x})]

\* the current track and the tracks before it: the same tracks at the
\* same places, under the same cursor
HeadKept ==
    /\ player.queue_position = obs.before.queue_position
    /\ Take(player.queue, player.queue_position + 1)
           = Take(obs.before.queue, obs.before.queue_position + 1)

\* C31: move(from, to) with both positions in 1..queue_size() puts that
\* upcoming track at upcoming position to, the other tracks keeping their
\* order and the current track and the ones before it their places; with
\* a position outside 1..queue_size() it raises and the queue is unchanged.
MoveRelocates ==
    obs.cmd = "move" =>
        LET size == QueueSize(obs.before)
            valid == obs.a \in 1..size /\ obs.b \in 1..size
        IN IF valid
           THEN /\ ~obs.raised
                /\ HeadKept
                /\ Len(GetQueue(player)) = size
                /\ GetQueue(player)[obs.b] = GetQueue(obs.before)[obs.a]
                /\ Without(GetQueue(player), obs.b) = Without(GetQueue(obs.before), obs.a)
           ELSE /\ obs.raised
                /\ player.queue = obs.before.queue
                /\ player.queue_position = obs.before.queue_position

Min(a, b) == IF a < b THEN a ELSE b

\* C32: add(song, immediate) puts a track of no playlist at index
\* queue_position + 1 when immediate is set and at the end otherwise, and a
\* track of a playlist at the end whatever immediate is; the cursor is
\* unchanged and the tracks queued before are all there in the same order.
AddInserts ==
    obs.cmd = "add" =>
        LET n == Len(obs.before.queue)
            index == IF obs.b = 1 /\ ~InPlaylist(obs.a)
                     THEN Min(obs.before.queue_position + 1, n)
                     ELSE n
        IN /\ Len(player.queue) = n + 1
           /\ player.queue[index + 1] = obs.a
           /\ Without(player.queue, index + 1) = obs.before.queue
           /\ player.queue_position = obs.before.queue_position

\* an immediate track put before two upcoming ones
AddWitness ==
    /\ obs.cmd = "add" /\ obs.b = 1 /\ ~InPlaylist(obs.a)
    /\ obs.before.queue_position = 1
    /\ Len(obs.before.queue) = 3
    /\ player.queue[3] = obs.a

\* C33: clear() drops the tracks after the cursor and no others: the
\* current track is the one it was, nothing is upcoming, and the tracks
\* before the cursor are still in the queue.
ClearDropsUpcoming ==
    obs.cmd = "clear" =>
        /\ GetCurrent(player) = GetCurrent(obs.before)
        /\ GetQueue(player) = <<>>
        /\ \A i \in 1..Min(obs.before.queue_position, Len(obs.before.queue)) :
               \E j \in 1..Len(player.queue) : player.queue[j] = obs.before.queue[i]

\* C33, as the code has it: clear() keeps the current track and nothing
\* else: the queue is the current track alone under cursor 0 (empty when
\* there was no current track), the tracks before the cursor being
\* dropped with the ones after it.
ClearKeepsCurrentOnly ==
    obs.cmd = "clear" =>
        LET current == GetCurrent(obs.before) IN
        /\ GetCurrent(player) = current
        /\ GetQueue(player) = <<>>
        /\ player.queue_position = 0
        /\ player.queue = (IF current # NoSong THEN <<current>> ELSE <<>>)

\* a clear() with a track before the cursor and one after it
ClearWitness ==
    /\ obs.cmd = "clear"
    /\ obs.before.queue_position = 1
    /\ Len(obs.before.queue) = 3
    /\ player.queue = <<obs.before.queue[2]>>

\* C34: shuffle() permutes the tracks after the cursor: the upcoming
\* tracks are the same as a multiset, and the cursor, the current track
\* and the tracks before it are unchanged.
ShufflePermutesUpcoming ==
    obs.cmd = "shuffle" =>
        /\ HeadKept
        /\ Tracks(GetQueue(player)) = Tracks(GetQueue(obs.before))
        /\ Len(GetQueue(player)) = Len(GetQueue(obs.before))

\* a shuffle behind the cursor that changed the order of two upcoming tracks
ShuffleWitness ==
    /\ obs.cmd = "shuffle"
    /\ obs.before.queue_position = 1
    /\ Len(obs.before.queue) = 4
    /\ player.queue # obs.before.queue

\* ---------------------------------------------------------------------
\* the last command was a play command for a track X that was not in the
\* queue, on a player whose queue had drained to IDLE, and it has returned
\* with nothing else happening since
PlayedAfterDrain ==
    /\ obs.cmd = "command"
    /\ obs.before.status = "IDLE"
    /\ obs.before.queue # <<>>
    /\ \A i \in 1..Len(obs.before.queue) : obs.before.queue[i] # obs.song
    /\ Quiet

\* C35: a play command that enqueues a track X on a queue that has drained
\* to IDLE starts X, and not a track that has already ended or been
\* skipped.
DrainedPlayStartsNew ==
    PlayedAfterDrain => IsPlaying(World) /\ vc.song = obs.song

\* ---------------------------------------------------------------------
\* the last command was a seek() on a PLAYING player that went through,
\* and the callback of the source it stopped has been handled
SoughtWhilePlaying ==
    /\ obs.cmd = "seek"
    /\ obs.p.status = "PLAYING"
    /\ obs.done = "ok"
    /\ Quiet

\* C36: after a successful seek() on a PLAYING player, the callback of the
\* stopped source handled, the queue and the cursor are what they were and
\* the current track is the same.
SeekKeepsCurrent ==
    SoughtWhilePlaying =>
        /\ player.queue = obs.p.queue
        /\ player.queue_position = obs.p.queue_position

\* ---------------------------------------------------------------------
\* the auto-disconnect timers of the player that can still fire: the one
\* self.disconnect_timer refers to and the ones it no longer refers to
TimersPending == timers + (IF player.disconnect_timer.state = "armed" THEN 1 ELSE 0)

\* C37: at most one auto-disconnect timer of the player is pending at any
\* time, and when play() returns with its track started none is: every
\* timer armed before has been cancelled and cannot fire afterwards.
PlayCancelsTimers ==
    /\ TimersPending <= 1
    /\ (obs.cmd = "play" /\ Quiet /\ player.status = "PLAYING") => TimersPending = 0

\* ---------------------------------------------------------------------
\* C38: when a command has completed, the callbacks it provoked included,
\* a status of PAUSED or IDLE comes with a voice client that is not
\* playing audio.
StatusAgreesWithVoice ==
    (obs.cmd # "none" /\ Quiet /\ player.status \in {"PAUSED", "IDLE"}) =>
        ~IsPlaying(World)

\* ---------------------------------------------------------------------
\* play() was issued on an IDLE player (nothing paused to resume) and has
\* returned with its track started, nothing else having happened since
StartedFromIdle ==
    /\ obs.cmd = "play"
    /\ obs.p.status = "IDLE"
    /\ Quiet
    /\ player.status = "PLAYING"

\* C39: a track that play() starts on an IDLE player (a fresh one, one
\* that was stopped, one whose queue has drained) starts at position 0.
StartsAtZero == StartedFromIdle => player.position_in_seconds = 0

\* ---------------------------------------------------------------------
\* C40: a remove(g) that completes, whatever other remove(g) or cleanup
\* pass ran alongside it, has not failed and leaves g without an entry.
RemoveOverlapSafe ==
    obs.cmd = "removed" =>
        /\ ~obs.raised
        /\ manager.players[obs.arg] = NoPlayer

====
